---- MODULE Spec2Model ----
(***************************************************************************)
(* Emergence Kernel: the buddy physical memory manager (kernel/pmm.c) and  *)
(* the nested-kernel monitor (kernel/monitor/monitor.c, kernel/pcd.c).     *)
(*                                                                         *)
(* Addresses are byte addresses, as in the C code.  The allocator's        *)
(* arithmetic is kept; only the sizes of the machine are scaled down       *)
(* (MAX_ORDER, MAX_BLOCK_DESC, the number of page frames, the number of    *)
(* entries of one page table).                                             *)
(***************************************************************************)
EXTENDS Integers, Sequences, FiniteSets, TLC

(***************************************************************************)
(* Program constants and model bounds                                      *)
(***************************************************************************)
\* pmm.h:11
PAGE_SIZE == 4096
\* half a page: the offset of the unaligned addresses the model draws
HalfPage == PAGE_SIZE \div 2
\* pmm.h:15 is 9 (2 MiB blocks); scaled down
MAX_ORDER == 2
\* pmm.h:18 is 1024; scaled down, for the allocator's own specification
MAX_BLOCK_DESC == 6
\* page frames of physical memory the allocator model draws regions from
MemPages == 8
\* pmm_add_region calls of one run (entries of the memory map)
MaxRegions == 1
\* pmm_reserve_region calls of one run
MaxReserves == 1
\* pmm_alloc / pmm_free calls of one run
MaxOps == 5

\* bits of an unsigned word of the model (uint64_t has 64)
WordBits == 24

Orders == 0..MAX_ORDER

Pow2(n) == 2^n

\* unsigned arithmetic is modulo WordSize
WordSize == Pow2(WordBits)

\* PAGE_SIZE << order
BlockSize(order) == PAGE_SIZE * Pow2(order)

\* (x + PAGE_SIZE - 1) & ~(PAGE_SIZE - 1)
AlignUp(x) == ((x + PAGE_SIZE - 1) \div PAGE_SIZE) * PAGE_SIZE

\* x & ~(PAGE_SIZE - 1)
AlignDown(x) == (x \div PAGE_SIZE) * PAGE_SIZE

\* (addr & (bs - 1)) == 0
IsAligned(addr, bs) == addr % bs = 0

Min(a, b) == IF a <= b THEN a ELSE b

\* the sequence s without its i-th element (list_remove of one node)
RemoveAt(s, i) == SubSeq(s, 1, i - 1) \o SubSeq(s, i + 1, Len(s))

\* position of the first element of s equal to x, 0 when there is none
RECURSIVE IndexFrom(_, _, _)
IndexFrom(s, x, i) ==
    IF i > Len(s) THEN 0
    ELSE IF s[i] = x THEN i
    ELSE IndexFrom(s, x, i + 1)

IndexOf(s, x) == IndexFrom(s, x, 1)

\* F applied to the value of e: e is evaluated once, before F is entered
ApplyTo(F(_), e) == CHOOSE y \in {F(x) : x \in {e}} : TRUE

(***************************************************************************)
(* The allocator's state (pmm_state_t) as a record:                        *)
(*   free_lists[o]    the bases of the blocks on the order-o free list,    *)
(*                    head first                                           *)
(*   allocated_blocks the allocated list, [base_addr, order] per block     *)
(*   total_pages, free_pages, block_count   the three counters             *)
(*   pool_size        the length of the descriptor array blocks[]          *)
(*   desc_err         "PMM: ERROR - Out of block descriptors" was logged   *)
(*                    by the current call                                  *)
(*   warn             "PMM: WARNING - Freeing unallocated block" logged    *)
(***************************************************************************)
\* pmm_init, lines 213-222: empty lists, zero counters
PmmEmpty ==
    [ free_lists       |-> [o \in Orders |-> << >>],
      allocated_blocks |-> << >>,
      total_pages      |-> 0,
      free_pages       |-> 0,
      block_count      |-> 0,
      pool_size        |-> MAX_BLOCK_DESC,
      desc_err         |-> FALSE,
      warn             |-> FALSE ]

\* a public entry point starts with nothing logged
ClearLog(s) == [s EXCEPT !.desc_err = FALSE, !.warn = FALSE]

\* get_buddy_addr: addr ^ (PAGE_SIZE << order), the toggle of one bit
get_buddy_addr(addr, order) ==
    IF (addr \div BlockSize(order)) % 2 = 0
    THEN addr + BlockSize(order)
    ELSE addr - BlockSize(order)

\* alloc_block: a descriptor is available
alloc_block_ok(s) == s.block_count < s.pool_size

\* add_free_block
add_free_block(s, addr, order) ==
    IF ~alloc_block_ok(s)
    THEN [s EXCEPT !.desc_err = TRUE]
    ELSE [s EXCEPT !.block_count = @ + 1,
                   !.free_lists[order] = Append(@, addr),
                   !.free_pages = @ + Pow2(order)]

\* split_block: the block `base` sits at position pos of free list `order`
RECURSIVE split_block(_, _, _, _, _)
split_block(s, base, order, pos, target_order) ==
    IF order > target_order
    THEN LET s1 == [s EXCEPT !.free_lists[order] = RemoveAt(@, pos)]
             o1 == order - 1
             s2 == add_free_block(s1, base + BlockSize(o1), o1)
         IN  ApplyTo(LAMBDA s3 : split_block(s3, base, o1,
                                             Len(s3.free_lists[o1]),
                                             target_order),
                     [s2 EXCEPT !.free_lists[o1] = Append(@, base)])
    ELSE [s EXCEPT !.free_lists[order] = RemoveAt(@, pos),
                   !.allocated_blocks =
                        Append(@, [base_addr |-> base, order |-> order])]

\* the orders find_free_block can serve a request of `order` from
NonEmptyOrders(s, order) ==
    {o \in Orders : o >= order /\ s.free_lists[o] # << >>}

\* find_free_block: [found, addr, state]
find_free_block(s, order) ==
    IF NonEmptyOrders(s, order) = {}
    THEN [found |-> FALSE, addr |-> 0, state |-> s]
    ELSE LET o == CHOOSE x \in NonEmptyOrders(s, order) :
                     \A y \in NonEmptyOrders(s, order) : x <= y
             base == Head(s.free_lists[o])
         IN  [found |-> TRUE, addr |-> base,
              state |-> split_block(s, base, o, 1, order)]

\* coalesce_block
RECURSIVE coalesce_block(_, _, _)
coalesce_block(s, base, order) ==
    LET buddy_addr == get_buddy_addr(base, order)
        i == IF order < MAX_ORDER
             THEN IndexOf(s.free_lists[order], buddy_addr) ELSE 0
    IN  IF order < MAX_ORDER /\ i # 0
        THEN ApplyTo(LAMBDA s1 : coalesce_block(s1, Min(base, buddy_addr),
                                                order + 1),
                     [s EXCEPT !.free_lists[order] = RemoveAt(@, i)])
        ELSE [s EXCEPT !.free_lists[order] = Append(@, base),
                       !.free_pages = @ + Pow2(order)]

\* pmm_alloc: [ret, state]; ret = 0 is the null result
pmm_alloc(s0, order) ==
    ApplyTo(LAMBDA s :
                IF order > MAX_ORDER
                THEN [ret |-> 0, state |-> s]
                ELSE ApplyTo(LAMBDA r :
                                 IF ~r.found
                                 THEN [ret |-> 0, state |-> s]
                                 ELSE [ret |-> r.addr, state |-> r.state],
                             find_free_block(s, order)),
            ClearLog(s0))

\* find_allocated_block: position in the allocated list, 0 when absent
RECURSIVE AllocIndexFrom(_, _, _)
AllocIndexFrom(s, addr, i) ==
    IF i > Len(s.allocated_blocks) THEN 0
    ELSE IF s.allocated_blocks[i].base_addr = addr THEN i
    ELSE AllocIndexFrom(s, addr, i + 1)

find_allocated_block(s, addr) == AllocIndexFrom(s, addr, 1)

\* pmm_free
pmm_free(s0, addr, order) ==
    ApplyTo(LAMBDA s :
                LET i == find_allocated_block(s, addr)
                    b == s.allocated_blocks[i]
                IN  IF order > MAX_ORDER THEN s
                    ELSE IF i = 0 THEN [s EXCEPT !.warn = TRUE]
                    ELSE ApplyTo(LAMBDA s1 : coalesce_block(s1, b.base_addr,
                                                            b.order),
                                 [s EXCEPT !.allocated_blocks =
                                               RemoveAt(@, i)]),
            ClearLog(s0))

\* a pmm_add_region that forgets the alignment test of line 293
RegionFits_NoAlign(addr, remaining, order) ==
    remaining >= BlockSize(order)

\* pmm_add_region, line 293: a block of `order` fits at addr
RegionFits(addr, remaining, order) ==
    remaining >= BlockSize(order) /\ IsAligned(addr, BlockSize(order))

\* pmm_add_region, lines 287-307: the loop over [addr, end).  Once the
\* descriptor pool is used up every further add_free_block fails and leaves
\* the state as it is, so the rest of the loop is skipped.
RECURSIVE AddLoop(_, _, _)
AddLoop(s, addr, end) ==
    IF addr >= end THEN s
    ELSE IF s.desc_err /\ ~alloc_block_ok(s) THEN s
    ELSE LET remaining == end - addr
             fits == {o \in 1..MAX_ORDER : RegionFits(addr, remaining, o)}
         IN  IF fits # {}
             THEN LET o == CHOOSE x \in fits : \A y \in fits : x >= y
                  IN  ApplyTo(LAMBDA s1 : AddLoop(s1, addr + BlockSize(o),
                                                  end),
                              add_free_block(s, addr, o))
             ELSE IF remaining >= PAGE_SIZE
             THEN ApplyTo(LAMBDA s1 : AddLoop(s1, addr + PAGE_SIZE, end),
                          add_free_block(s, addr, 0))
             ELSE s

\* pmm_add_region; base, size and end are uint64_t, so the sums wrap
pmm_add_region(s0, base0, size0) ==
    LET base == AlignUp(base0) % WordSize
        size == AlignDown(size0)
    IN  ApplyTo(LAMBDA s :
                    IF size < PAGE_SIZE THEN s
                    ELSE [AddLoop(s, base, (base + size) % WordSize)
                             EXCEPT !.total_pages = @ + size \div PAGE_SIZE],
                ClearLog(s0))

\* pmm_reserve_region, lines 350-357 and 367-374: the order of the next
\* sub-block re-added at addr; the for loop takes the first order that fits
ReaddOrders(addr, size, order) ==
    {o \in 0..order : size >= BlockSize(o) /\ IsAligned(addr, BlockSize(o))}

\* pmm_reserve_region, lines 349-359 and 366-376: re-add [addr, addr+size)
RECURSIVE Readd(_, _, _, _)
Readd(s, addr, size, order) ==
    IF size < PAGE_SIZE \/ ReaddOrders(addr, size, order) = {} THEN s
    ELSE LET o == CHOOSE x \in ReaddOrders(addr, size, order) :
                     \A y \in ReaddOrders(addr, size, order) : x <= y
         IN  ApplyTo(LAMBDA s1 : Readd(s1, addr + BlockSize(o),
                                       size - BlockSize(o), order),
                     add_free_block(s, addr, o))

\* pmm_reserve_region, lines 323-324: the window that is carved out
ReserveStart(base) == AlignUp(base)

ReserveEnd(base, size) == AlignDown(base + size)

\* pmm_reserve_region, line 338
Intersects(addr, end, block_start, block_end) ==
    addr < block_end /\ end > block_start

\* pmm_reserve_region, lines 331-380: the walk over the free lists, at the
\* i-th block of list `order`
RECURSIVE ReserveWalk(_, _, _, _, _)
ReserveWalk(s, order, i, addr, end) ==
    IF order > MAX_ORDER THEN s
    ELSE IF i > Len(s.free_lists[order])
    THEN ReserveWalk(s, order + 1, 1, addr, end)
    ELSE LET block_start == s.free_lists[order][i]
             block_end   == block_start + BlockSize(order)
         IN  IF ~Intersects(addr, end, block_start, block_end)
             THEN ReserveWalk(s, order, i + 1, addr, end)
             ELSE LET s1 == [s EXCEPT !.free_lists[order] = RemoveAt(@, i),
                                      !.free_pages = @ - Pow2(order)]
                      s2 == IF block_start < addr
                            THEN Readd(s1, block_start, addr - block_start,
                                       order)
                            ELSE s1
                      s3 == IF block_end > end
                            THEN Readd(s2, end, block_end - end, order)
                            ELSE s2
                  IN  ApplyTo(LAMBDA s4 : ReserveWalk(s4, order, i, addr,
                                                      end),
                              s3)

\* pmm_reserve_region
pmm_reserve_region(s0, base, size) ==
    LET addr == ReserveStart(base)
        end  == ReserveEnd(base, size)
    IN  ApplyTo(LAMBDA s :
                    IF addr >= end THEN s
                    ELSE ReserveWalk(s, 0, 1, addr, end),
                ClearLog(s0))

\* pmm_get_free_pages
pmm_get_free_pages(s) == s.free_pages

\* pmm_get_total_pages
pmm_get_total_pages(s) == s.total_pages

(***************************************************************************)
(* The machine of the monitor's specification.  Physical memory is         *)
(* PdEntries regions of TableEntries page frames each: one region is what  *)
(* one page-directory entry maps (2 MiB in the kernel, 512 frames).        *)
(***************************************************************************)
\* entries of one page table: 512 in the kernel; scaled down
TableEntries == 32
\* page-directory entries that are backed by memory
PdEntries == 2
\* pmm.h:18 is 1024; scaled down, for the monitor's specification
MonBlockDesc == 48
\* monitor calls of one run
MaxCalls == 2
\* calls of the PCD interface of one run
MaxPcdOps == 2

\* bytes mapped by one page-directory entry (1 << 21 in the kernel)
RegionBytes == TableEntries * PAGE_SIZE

NumFrames == PdEntries * TableEntries

MonMemBytes == NumFrames * PAGE_SIZE

\* the page-aligned addresses of physical memory
FrameAddrs == {f * PAGE_SIZE : f \in 0..(NumFrames - 1)}

\* paging.h:7
X86_PTE_PRESENT == 1
\* paging.h:8
X86_PTE_WRITABLE == 2
\* paging.h:14
X86_PTE_PS == 128

\* flags & bit, for a single-bit mask
HasFlag(flags, bit) == (flags \div bit) % 2 = 1

\* flags & ~bit
ClearFlag(flags, bit) == IF HasFlag(flags, bit) THEN flags - bit ELSE flags

\* flags | bit
SetFlag(flags, bit) == IF HasFlag(flags, bit) THEN flags ELSE flags + bit

\* pcd.h:14-17
PCD_TYPE_OK_NORMAL == 0
PCD_TYPE_NK_NORMAL == 1
PCD_TYPE_NK_PGTABLE == 2
PCD_TYPE_NK_IO == 3
\* pcd.h:19-20
PCD_TYPE_MIN == 0
PCD_TYPE_MAX == 3
\* sizeof(pcd_t), pcd.h:27-32
PcdEntrySize == 8

\* monitor.h:15-21
MONITOR_CALL_ALLOC_PHYS == 0
MONITOR_CALL_FREE_PHYS == 1
MONITOR_CALL_SET_PAGE_TYPE == 2
MONITOR_CALL_GET_PAGE_TYPE == 3
MONITOR_CALL_MAP_PAGE == 4
MONITOR_CALL_UNMAP_PAGE == 5
MONITOR_CALL_ALLOC_PGTABLE == 6

(***************************************************************************)
(* The kernel image.  The linker places it at 1 MiB, the start of a        *)
(* maximal block; here it starts at the second maximal block.  Each        *)
(* object of the image takes one frame.                                    *)
(***************************************************************************)
kernel_start == BlockSize(MAX_ORDER)
boot_pml4 == kernel_start
boot_pdpt == boot_pml4 + PAGE_SIZE
boot_pd == boot_pdpt + PAGE_SIZE
boot_pd_apic == boot_pd + PAGE_SIZE
boot_pt_apic == boot_pd_apic + PAGE_SIZE
kernel_text == boot_pt_apic + PAGE_SIZE
nk_boot_stack_bottom == kernel_text + PAGE_SIZE
nk_boot_stack_top == nk_boot_stack_bottom + PAGE_SIZE
nk_trampoline_stack_bottom == nk_boot_stack_top
nk_trampoline_stack_end == nk_trampoline_stack_bottom + PAGE_SIZE
ok_cpu_stacks == nk_trampoline_stack_end
ok_stacks_size == PAGE_SIZE
kernel_end == ok_cpu_stacks + ok_stacks_size

\* pmm_init, line 243: the AP trampoline window (0x7000, 8192 bytes)
TrampolineBase == PAGE_SIZE
TrampolineSize == 2 * PAGE_SIZE
\* pmm_init, line 247: the boot stack window after the image (32768 bytes)
BootStackSize == PAGE_SIZE
\* the local APIC's registers (0xFEE00000), above all of memory
ApicBase == MonMemBytes + RegionBytes

(***************************************************************************)
(* Page Control Data (pcd_state_t):                                        *)
(*   initialized, pages (the array's address), max_pages, base_page        *)
(*   type      the type field of pages[i], for i in 0..max_pages-1         *)
(***************************************************************************)
PcdEmpty ==
    [ initialized |-> FALSE, pages |-> 0, max_pages |-> 0, base_page |-> 0,
      type |-> [i \in {} |-> PCD_TYPE_NK_NORMAL] ]

phys_to_page(phys_addr) == phys_addr \div PAGE_SIZE

pcd_get_index(p, phys_addr) ==
    IF phys_to_page(phys_addr) < p.base_page THEN 0
    ELSE IF phys_to_page(phys_addr) - p.base_page >= p.max_pages
    THEN p.max_pages - 1
    ELSE phys_to_page(phys_addr) - p.base_page

\* a pcd_is_managed whose upper bound is inclusive
pcd_is_managed_Inclusive(p, phys_addr) ==
    /\ phys_to_page(phys_addr) >= p.base_page
    /\ phys_to_page(phys_addr) <= p.base_page + p.max_pages

pcd_is_managed(p, phys_addr) ==
    /\ phys_to_page(phys_addr) >= p.base_page
    /\ phys_to_page(phys_addr) < p.base_page + p.max_pages

\* a pcd_set_type whose type check also turns down PCD_TYPE_MIN
pcd_set_type_MinExclusive(p, phys_addr, type) ==
    IF ~p.initialized THEN p
    ELSE IF type <= PCD_TYPE_MIN \/ type > PCD_TYPE_MAX THEN p
    ELSE IF ~pcd_is_managed(p, AlignDown(phys_addr)) THEN p
    ELSE [p EXCEPT !.type[pcd_get_index(p, AlignDown(phys_addr))] = type]

pcd_set_type(p, phys_addr, type) ==
    IF ~p.initialized THEN p
    ELSE IF type < PCD_TYPE_MIN \/ type > PCD_TYPE_MAX THEN p
    ELSE IF ~pcd_is_managed(p, AlignDown(phys_addr)) THEN p
    ELSE [p EXCEPT !.type[pcd_get_index(p, AlignDown(phys_addr))] = type]

pcd_get_type(p, phys_addr) ==
    IF ~p.initialized THEN PCD_TYPE_NK_NORMAL
    ELSE IF ~pcd_is_managed(p, AlignDown(phys_addr)) THEN PCD_TYPE_NK_NORMAL
    ELSE p.type[pcd_get_index(p, AlignDown(phys_addr))]

\* pcd_mark_region, lines 272-277: the loop over the pages of [page, end)
RECURSIVE MarkLoop(_, _, _, _)
MarkLoop(p, page, end, type) ==
    IF page >= end THEN p
    ELSE ApplyTo(LAMBDA q : MarkLoop(q, page + PAGE_SIZE, end, type),
                 IF pcd_is_managed(p, page)
                 THEN [p EXCEPT !.type[pcd_get_index(p, page)] = type]
                 ELSE p)

pcd_mark_region(p0, base, size, type) ==
    ApplyTo(LAMBDA p :
                IF ~p.initialized THEN p
                ELSE IF AlignUp(base) >= AlignDown(base + size) THEN p
                ELSE MarkLoop(p, AlignUp(base), AlignDown(base + size),
                              type),
            p0)

pcd_is_initialized(p) == p.initialized

pcd_get_max_pages(p) == p.max_pages

\* pcd_init, lines 91-98: the order of the block that holds the array
RECURSIVE PcdOrder(_, _, _)
PcdOrder(pcd_order, order_size, pcd_array_size) ==
    IF order_size < pcd_array_size /\ pcd_order < MAX_ORDER
    THEN PcdOrder(pcd_order + 1, order_size * 2, pcd_array_size)
    ELSE pcd_order

\* pcd_init, lines 142-168: the regions marked once the array is set up
PcdMarkBoot(p0) ==
    LET p1 == pcd_mark_region(p0, kernel_start, kernel_end - kernel_start,
                              PCD_TYPE_NK_NORMAL)
        p2 == pcd_mark_region(p1, nk_boot_stack_bottom,
                              nk_boot_stack_top - nk_boot_stack_bottom,
                              PCD_TYPE_NK_NORMAL)
        p3 == pcd_mark_region(p2, nk_trampoline_stack_bottom,
                              nk_trampoline_stack_end
                                  - nk_trampoline_stack_bottom,
                              PCD_TYPE_NK_NORMAL)
    IN  pcd_mark_region(p3, ok_cpu_stacks, ok_stacks_size,
                        PCD_TYPE_OK_NORMAL)

\* pcd_init, lines 114-133: the array is allocated and every page starts
\* as NK_NORMAL; r is the result of pmm_alloc
PcdAllocated(r, total_pages) ==
    IF r.ret = 0 THEN [pmm |-> r.state, pcd |-> PcdEmpty]
    ELSE [pmm |-> r.state,
          pcd |-> PcdMarkBoot(
              [ initialized |-> TRUE, pages |-> r.ret,
                max_pages |-> total_pages, base_page |-> 0,
                type |-> [i \in 0..(total_pages - 1) |->
                             PCD_TYPE_NK_NORMAL] ])]

\* pcd_init: [pmm, pcd]
pcd_init(pmm) ==
    LET total_pages == pmm_get_total_pages(pmm)
        pcd_order   == PcdOrder(0, PAGE_SIZE, total_pages * PcdEntrySize)
    IN  IF total_pages = 0 THEN [pmm |-> pmm, pcd |-> PcdEmpty]
        ELSE ApplyTo(LAMBDA r : PcdAllocated(r, total_pages),
                     pmm_alloc(pmm, pcd_order))

(***************************************************************************)
(* Page tables.  Memory that holds page tables is a function from the      *)
(* physical address of a table to its TableEntries entries; an entry is    *)
(* [addr, flags], the address bits and the low flag bits of the 64-bit     *)
(* word.  A virtual address selects one entry at each of the four levels.  *)
(***************************************************************************)
Entry(addr, flags) == [addr |-> addr, flags |-> flags]

ZeroEntry == Entry(0, 0)

TableIdx == 0..(TableEntries - 1)

ZeroTable == [i \in TableIdx |-> ZeroEntry]

\* X86_PTE_PRESENT | X86_PTE_WRITABLE
PresentWritable == SetFlag(X86_PTE_PRESENT, X86_PTE_WRITABLE)

\* paging.h:18, X86_PD_FLAGS_2MB
X86_PD_FLAGS_2MB == SetFlag(PresentWritable, X86_PTE_PS)

\* the table at physical address a
TableAt(pt, a) == IF a \in DOMAIN pt THEN pt[a] ELSE ZeroTable

\* store the table t at physical address a
PutTable(pt, a, t) ==
    [x \in (DOMAIN pt) \cup {a} |-> IF x = a THEN t ELSE pt[x]]

\* table[i] = e, for the table at physical address a
PutEntry(pt, a, i, e) == PutTable(pt, a, [TableAt(pt, a) EXCEPT ![i] = e])

\* monitor.c:328-331, with TableEntries entries per level
PML4_INDEX(vaddr) ==
    (vaddr \div (PAGE_SIZE * TableEntries * TableEntries * TableEntries))
        % TableEntries
PDPT_INDEX(vaddr) ==
    (vaddr \div (PAGE_SIZE * TableEntries * TableEntries)) % TableEntries
PD_INDEX(vaddr) == (vaddr \div (PAGE_SIZE * TableEntries)) % TableEntries
PT_INDEX(vaddr) == (vaddr \div PAGE_SIZE) % TableEntries

\* monitor.c:325; here the first address of the second PML4 slot
NESTED_KERNEL_RO_BASE ==
    PAGE_SIZE * TableEntries * TableEntries * TableEntries

\* the tables the boot code hands over: one PML4 slot, one PDPT slot, and a
\* page directory of writable large pages that maps memory one to one
BootTables ==
    LET pml4 == [i \in TableIdx |->
                    IF i = 0 THEN Entry(boot_pdpt, PresentWritable)
                    ELSE ZeroEntry]
        pdpt == [i \in TableIdx |->
                    IF i = 0 THEN Entry(boot_pd, PresentWritable)
                    ELSE ZeroEntry]
        pd   == [i \in TableIdx |-> Entry(i * RegionBytes, X86_PD_FLAGS_2MB)]
    IN  [a \in {boot_pml4, boot_pdpt, boot_pd, boot_pd_apic, boot_pt_apic} |->
            IF a = boot_pml4 THEN pml4
            ELSE IF a = boot_pdpt THEN pdpt
            ELSE IF a = boot_pd THEN pd
            ELSE ZeroTable]

\* the translation of vaddr under the tables rooted at root:
\* [present, phys, writable]; a write needs the W bit at every level
Walk(pt, root, vaddr) ==
    LET none == [present |-> FALSE, phys |-> 0, writable |-> FALSE]
        e4 == TableAt(pt, root)[PML4_INDEX(vaddr)]
        e3 == TableAt(pt, e4.addr)[PDPT_INDEX(vaddr)]
        e2 == TableAt(pt, e3.addr)[PD_INDEX(vaddr)]
        e1 == TableAt(pt, e2.addr)[PT_INDEX(vaddr)]
        w3 == HasFlag(e4.flags, X86_PTE_WRITABLE)
                 /\ HasFlag(e3.flags, X86_PTE_WRITABLE)
                 /\ HasFlag(e2.flags, X86_PTE_WRITABLE)
    IN  IF ~HasFlag(e4.flags, X86_PTE_PRESENT) THEN none
        ELSE IF ~HasFlag(e3.flags, X86_PTE_PRESENT) THEN none
        ELSE IF ~HasFlag(e2.flags, X86_PTE_PRESENT) THEN none
        ELSE IF HasFlag(e2.flags, X86_PTE_PS)
        THEN [present |-> TRUE,
              phys |-> e2.addr + PT_INDEX(vaddr) * PAGE_SIZE,
              writable |-> w3]
        ELSE IF ~HasFlag(e1.flags, X86_PTE_PRESENT) THEN none
        ELSE [present |-> TRUE, phys |-> e1.addr,
              writable |-> w3 /\ HasFlag(e1.flags, X86_PTE_WRITABLE)]

(***************************************************************************)
(* The monitor.  Its operators work on the record [pmm, pcd, pt, mon]:     *)
(* the allocator, the PCD, the page-table memory and the monitor's         *)
(* globals (the eight table pointers and the two roots).                   *)
(***************************************************************************)
MonEmpty ==
    [ monitor_pml4 |-> 0, monitor_pdpt |-> 0, monitor_pd |-> 0,
      unpriv_pml4 |-> 0, unpriv_pdpt |-> 0, unpriv_pd |-> 0,
      monitor_pt_0_2mb |-> 0, unpriv_pt_0_2mb |-> 0,
      monitor_pml4_phys |-> 0, unpriv_pml4_phys |-> 0 ]

monitor_find_pd_entry(phys_addr) ==
    (phys_addr \div RegionBytes) % TableEntries

\* monitor_protect_state: clears W in one entry of unpriv_pd
monitor_protect_state(S0) ==
    ApplyTo(LAMBDA S :
                LET pd_index == monitor_find_pd_entry(S.mon.monitor_pml4)
                    original_entry ==
                        TableAt(S.pt, S.mon.unpriv_pd)[pd_index]
                IN  [S EXCEPT !.pt =
                        PutEntry(@, S.mon.unpriv_pd, pd_index,
                                 Entry(original_entry.addr,
                                       ClearFlag(original_entry.flags,
                                                 X86_PTE_WRITABLE)))],
            S0)

\* create_or_get_table: [table, state]
create_or_get_table(S) ==
    ApplyTo(LAMBDA r :
                IF r.ret = 0
                THEN [table |-> 0, state |-> [S EXCEPT !.pmm = r.state]]
                ELSE [table |-> r.ret,
                      state |-> [S EXCEPT
                          !.pmm = r.state,
                          !.pt  = PutTable(@, r.ret, ZeroTable),
                          !.pcd = pcd_set_type(@, r.ret,
                                               PCD_TYPE_NK_PGTABLE)]],
            pmm_alloc(S.pmm, 0))

\* create_ro_mapping, steps 1 to 3: a new table c is entered at entry idx
\* of `parent`, unless its allocation failed
NewLevel(c, parent, idx) ==
    IF c.table = 0
    THEN [ok |-> FALSE, table |-> 0, state |-> c.state]
    ELSE [ok |-> TRUE, table |-> c.table,
          state |-> [c.state EXCEPT !.pt =
              PutEntry(@, parent, idx, Entry(c.table, PresentWritable))]]

\* create_ro_mapping, steps 1 to 3: the table that entry idx of `parent`
\* points to, created when the entry is not present: [ok, table, state]
NextLevel(S, parent, idx, is_pd) ==
    LET e == TableAt(S.pt, parent)[idx]
    IN  IF ~HasFlag(e.flags, X86_PTE_PRESENT)
        THEN ApplyTo(LAMBDA c : NewLevel(c, parent, idx),
                     create_or_get_table(S))
        ELSE IF is_pd /\ HasFlag(e.flags, X86_PTE_PS)
        THEN [ok |-> FALSE, table |-> 0, state |-> S]
        ELSE [ok |-> TRUE, table |-> e.addr, state |-> S]

\* create_ro_mapping, step 4, after the walk ended at l2
RoLeaf(l2, phys_addr, virt_addr) ==
    IF ~l2.ok THEN [ret |-> -1, state |-> l2.state]
    ELSE [ret |-> 0,
          state |-> [l2.state EXCEPT !.pt =
              PutEntry(@, l2.table, PT_INDEX(virt_addr),
                       Entry(phys_addr, X86_PTE_PRESENT))]]

\* create_ro_mapping, step 3, after step 2 ended at l3
RoStep3(l3, phys_addr, virt_addr) ==
    IF ~l3.ok THEN [ret |-> -1, state |-> l3.state]
    ELSE ApplyTo(LAMBDA l2 : RoLeaf(l2, phys_addr, virt_addr),
                 NextLevel(l3.state, l3.table, PD_INDEX(virt_addr), TRUE))

\* create_ro_mapping, step 2, after step 1 ended at l4
RoStep2(l4, phys_addr, virt_addr) ==
    IF ~l4.ok THEN [ret |-> -1, state |-> l4.state]
    ELSE ApplyTo(LAMBDA l3 : RoStep3(l3, phys_addr, virt_addr),
                 NextLevel(l4.state, l4.table, PDPT_INDEX(virt_addr),
                           FALSE))

\* create_ro_mapping: [ret, state]
create_ro_mapping(S, phys_addr, virt_addr) ==
    ApplyTo(LAMBDA l4 : RoStep2(l4, phys_addr, virt_addr),
            NextLevel(S, S.mon.unpriv_pml4, PML4_INDEX(virt_addr), FALSE))

\* monitor_create_ro_mappings, lines 458-467: the body of the loop, at page i
RoPage(S, i) ==
    LET phys_addr == i * PAGE_SIZE
        type == pcd_get_type(S.pcd, phys_addr)
    IN  IF type = PCD_TYPE_NK_NORMAL \/ type = PCD_TYPE_NK_PGTABLE
        THEN create_ro_mapping(S, phys_addr,
                               NESTED_KERNEL_RO_BASE + phys_addr).state
        ELSE S

\* monitor_create_ro_mappings, line 457: the loop over the pages lo..hi-1,
\* in ascending order (the first half of the range, then the second)
RECURSIVE RoLoop(_, _, _)
RoLoop(S, lo, hi) ==
    IF lo >= hi THEN S
    ELSE IF lo + 1 = hi THEN RoPage(S, lo)
    ELSE ApplyTo(LAMBDA S1 : RoLoop(S1, (lo + hi) \div 2, hi),
                 RoLoop(S, lo, (lo + hi) \div 2))

monitor_create_ro_mappings(S) == RoLoop(S, 0, pcd_get_max_pages(S.pcd))

\* monitor_init, lines 529-545: entry i of unpriv_pt_0_2mb
UnprivPte(m, i) ==
    LET phys_addr == i * PAGE_SIZE
    IN  IF phys_addr \in {boot_pml4, boot_pdpt, boot_pd, boot_pd_apic,
                          boot_pt_apic, m.monitor_pml4, m.monitor_pdpt,
                          m.monitor_pd, m.unpriv_pml4, m.unpriv_pdpt,
                          m.unpriv_pd}
        THEN Entry(phys_addr, X86_PTE_PRESENT)
        ELSE Entry(phys_addr, PresentWritable)

\* monitor_init, lines 551-565: the pages of the boot stack, the page of
\* nk_boot_stack_top included, are made writable in the table t
StackFix(t) ==
    [i \in TableIdx |->
        IF /\ i * PAGE_SIZE >= AlignDown(nk_boot_stack_bottom)
           /\ i * PAGE_SIZE <= AlignDown(nk_boot_stack_top)
           /\ ~HasFlag(t[i].flags, X86_PTE_WRITABLE)
        THEN Entry(i * PAGE_SIZE, PresentWritable)
        ELSE t[i]]

\* monitor_init, lines 511-583: the contents of the eight tables
MonitorTables(pt, m) ==
    LET p1 == PutTable(pt, m.monitor_pml4, TableAt(pt, boot_pml4))
        p2 == PutTable(p1, m.monitor_pdpt, TableAt(pt, boot_pdpt))
        p3 == PutTable(p2, m.monitor_pd, TableAt(pt, boot_pd))
        p4 == PutTable(p3, m.unpriv_pml4, TableAt(pt, boot_pml4))
        p5 == PutTable(p4, m.unpriv_pdpt, TableAt(pt, boot_pdpt))
        p6 == PutTable(p5, m.unpriv_pd, TableAt(pt, boot_pd))
        p7 == PutTable(p6, m.monitor_pt_0_2mb,
                  [i \in TableIdx |-> Entry(i * PAGE_SIZE, PresentWritable)])
        p8 == PutTable(p7, m.unpriv_pt_0_2mb,
                  StackFix([i \in TableIdx |-> UnprivPte(m, i)]))
        p9 == PutEntry(p8, m.monitor_pd, 0,
                  Entry(m.monitor_pt_0_2mb, PresentWritable))
        p10 == PutEntry(p9, m.unpriv_pd, 0,
                  Entry(m.unpriv_pt_0_2mb, PresentWritable))
        p11 == PutEntry(p10, m.unpriv_pml4, 0,
                  Entry(m.unpriv_pdpt, TableAt(pt, boot_pml4)[0].flags))
    IN  PutEntry(p11, m.unpriv_pdpt, 0,
                 Entry(m.unpriv_pd, TableAt(pt, boot_pdpt)[0].flags))

\* n calls of pmm_alloc(0) in a row: [rets, state]
RECURSIVE AllocPages(_, _, _)
AllocPages(s, n, rets) ==
    IF n = 0 THEN [rets |-> rets, state |-> s]
    ELSE ApplyTo(LAMBDA r : AllocPages(r.state, n - 1, Append(rets, r.ret)),
                 pmm_alloc(s, 0))

\* monitor_init, lines 666-678: the eleven tables are stamped NK_PGTABLE
RECURSIVE StampAll(_, _, _)
StampAll(p, addrs, type) ==
    IF addrs = << >> THEN p
    ELSE ApplyTo(LAMBDA q : StampAll(q, Tail(addrs), type),
                 pcd_set_type(p, Head(addrs), type))

\* monitor_init, lines 511-693, once the eight tables are allocated (m holds
\* their addresses)
MonitorBuild(S, m) ==
    LET m9 == [m EXCEPT !.monitor_pml4_phys = m.monitor_pml4,
                        !.unpriv_pml4_phys = m.unpriv_pml4]
        pcd1 == StampAll(S.pcd,
                    << boot_pml4, boot_pdpt, boot_pd, boot_pd_apic,
                       boot_pt_apic, m.monitor_pml4, m.monitor_pdpt,
                       m.monitor_pd, m.unpriv_pml4, m.unpriv_pdpt,
                       m.unpriv_pd >>,
                    PCD_TYPE_NK_PGTABLE)
        S1 == [pmm |-> S.pmm, pcd |-> pcd1,
               pt |-> MonitorTables(S.pt, m), mon |-> m9]
        S2 == monitor_protect_state(S1)
    IN  ApplyTo(LAMBDA S3 : monitor_create_ro_mappings(S3),
                [S2 EXCEPT !.pcd = pcd_mark_region(@, ApicBase, PAGE_SIZE,
                                                   PCD_TYPE_NK_IO)])

\* monitor_init, lines 501-509: the two 4 KiB tables are allocated
MonitorAlloc3(S, a) ==
    LET m == [S.mon EXCEPT !.monitor_pt_0_2mb = a.rets[1],
                           !.unpriv_pt_0_2mb = a.rets[2]]
    IN  IF a.rets[1] = 0 \/ a.rets[2] = 0
        THEN [S EXCEPT !.pmm = a.state, !.mon = m]
        ELSE ApplyTo(LAMBDA S1 : MonitorBuild(S1, S1.mon),
                     [S EXCEPT !.pmm = a.state, !.mon = m])

\* monitor_init, lines 491-499: the tables of the unprivileged view
MonitorAlloc2(S, a) ==
    LET m == [S.mon EXCEPT !.unpriv_pml4 = a.rets[1],
                           !.unpriv_pdpt = a.rets[2],
                           !.unpriv_pd = a.rets[3]]
    IN  IF a.rets[1] = 0 \/ a.rets[2] = 0 \/ a.rets[3] = 0
        THEN [S EXCEPT !.pmm = a.state, !.mon = m]
        ELSE ApplyTo(LAMBDA S1 :
                         ApplyTo(LAMBDA a3 : MonitorAlloc3(S1, a3),
                                 AllocPages(S1.pmm, 2, << >>)),
                     [S EXCEPT !.pmm = a.state, !.mon = m])

\* monitor_init, lines 481-489: the tables of the monitor's view
MonitorAlloc1(S, a) ==
    LET m == [S.mon EXCEPT !.monitor_pml4 = a.rets[1],
                           !.monitor_pdpt = a.rets[2],
                           !.monitor_pd = a.rets[3]]
    IN  IF a.rets[1] = 0 \/ a.rets[2] = 0 \/ a.rets[3] = 0
        THEN [S EXCEPT !.pmm = a.state, !.mon = m]
        ELSE ApplyTo(LAMBDA S1 :
                         ApplyTo(LAMBDA a2 : MonitorAlloc2(S1, a2),
                                 AllocPages(S1.pmm, 3, << >>)),
                     [S EXCEPT !.pmm = a.state, !.mon = m])

\* monitor_init
monitor_init(S) ==
    ApplyTo(LAMBDA a1 : MonitorAlloc1(S, a1), AllocPages(S.pmm, 3, << >>))

\* a monitor_get_unpriv_cr3 that hands out the other root
monitor_get_unpriv_cr3_Monitor(m) == m.monitor_pml4_phys

\* monitor_get_unpriv_cr3
monitor_get_unpriv_cr3(m) == m.unpriv_pml4_phys

\* monitor_is_privileged, with the value read from CR3
monitor_is_privileged(m, cr3_value) == cr3_value = m.monitor_pml4_phys

\* a monitor_map_page that rejects writable requests for NK_NORMAL only
monitor_map_page_NormalOnly(S, phys_addr, virt_addr, flags) ==
    IF /\ pcd_get_type(S.pcd, phys_addr) = PCD_TYPE_NK_NORMAL
       /\ HasFlag(flags, X86_PTE_WRITABLE)
    THEN -1
    ELSE 0

\* monitor_map_page: the return value; no table is written
monitor_map_page(S, phys_addr, virt_addr, flags) ==
    IF /\ pcd_get_type(S.pcd, phys_addr)
              \in {PCD_TYPE_NK_NORMAL, PCD_TYPE_NK_PGTABLE}
       /\ HasFlag(flags, X86_PTE_WRITABLE)
    THEN -1
    ELSE 0

\* monitor_unmap_page
monitor_unmap_page(S, virt_addr) == 0

\* monitor_ret_t; an int stored in the result field is kept as the int
Ret(result, error) == [result |-> result, error |-> error]

\* monitor_call_handler, lines 763-767: the frames of the block are stamped
RECURSIVE StampBlock(_, _, _, _)
StampBlock(p, addr, i, n) ==
    IF i >= n THEN p
    ELSE ApplyTo(LAMBDA q : StampBlock(q, addr, i + 1, n),
                 pcd_set_type(p, addr + i * PAGE_SIZE, PCD_TYPE_NK_PGTABLE))

\* monitor_call_handler: [ret, state]
monitor_call_handler(S, call, arg1, arg2, arg3) ==
    LET mapped == monitor_map_page(S, arg1, arg2, arg3)
        unmapped == monitor_unmap_page(S, arg1)
    IN  CASE call = MONITOR_CALL_ALLOC_PHYS ->
                ApplyTo(LAMBDA a :
                            [ret |-> Ret(a.ret, IF a.ret = 0 THEN -1 ELSE 0),
                             state |-> [S EXCEPT !.pmm = a.state]],
                        pmm_alloc(S.pmm, arg1))
          [] call = MONITOR_CALL_FREE_PHYS ->
                [ret |-> Ret(0, 0),
                 state |-> [S EXCEPT !.pmm = pmm_free(@, arg1, arg2)]]
          [] call = MONITOR_CALL_SET_PAGE_TYPE ->
                [ret |-> Ret(0, 0),
                 state |-> [S EXCEPT !.pcd = pcd_set_type(@, arg1, arg2)]]
          [] call = MONITOR_CALL_GET_PAGE_TYPE ->
                [ret |-> Ret(pcd_get_type(S.pcd, arg1), 0), state |-> S]
          [] call = MONITOR_CALL_MAP_PAGE ->
                [ret |-> Ret(mapped, IF mapped # 0 THEN -1 ELSE 0),
                 state |-> S]
          [] call = MONITOR_CALL_UNMAP_PAGE ->
                [ret |-> Ret(unmapped, IF unmapped # 0 THEN -1 ELSE 0),
                 state |-> S]
          [] call = MONITOR_CALL_ALLOC_PGTABLE ->
                ApplyTo(LAMBDA a :
                            [ret |-> Ret(a.ret, IF a.ret = 0 THEN -1 ELSE 0),
                             state |-> IF a.ret = 0
                                       THEN [S EXCEPT !.pmm = a.state]
                                       ELSE [S EXCEPT
                                           !.pmm = a.state,
                                           !.pcd = StampBlock(@, a.ret, 0,
                                                       Pow2(arg1))]],
                        pmm_alloc(S.pmm, arg1))
          [] OTHER -> [ret |-> Ret(0, -1), state |-> S]

\* monitor_pmm_alloc, lines 809-812: the frames of the block are stamped
RECURSIVE OkBlock(_, _, _, _)
OkBlock(p, page, i, n) ==
    IF i >= n THEN p
    ELSE ApplyTo(LAMBDA q : OkBlock(q, page, i + 1, n),
                 pcd_set_type(p, page + i * PAGE_SIZE, PCD_TYPE_OK_NORMAL))

\* monitor_pmm_alloc, lines 805-815, once monitor_call returned page: the
\* PCD it leaves
monitor_pmm_alloc(p, page, order) ==
    IF page # 0 /\ pcd_is_initialized(p)
    THEN OkBlock(p, page, 0, Pow2(order))
    ELSE p

\* pmm_init, after the state is cleared: the memory map, then the three
\* reserved windows
RECURSIVE AddRegions(_, _)
AddRegions(s, map) ==
    IF map = << >> THEN s
    ELSE ApplyTo(LAMBDA s1 : AddRegions(s1, Tail(map)),
                 pmm_add_region(s, Head(map).base, Head(map).size))

pmm_init(s, map) ==
    LET s1 == AddRegions(s, map)
        s2 == pmm_reserve_region(s1, kernel_start, kernel_end - kernel_start)
        s3 == pmm_reserve_region(s2, TrampolineBase, TrampolineSize)
    IN  pmm_reserve_region(s3, kernel_end, BootStackSize)

\* parse_memory_map: a memory map with two AVAILABLE entries, the memory
\* the kernel is loaded in (one page longer than the image and its boot
\* stack) and, after a hole, the second 2 MiB region
HoleMap ==
    << [base |-> kernel_start,
        size |-> kernel_end + BootStackSize + PAGE_SIZE - kernel_start],
       [base |-> RegionBytes, size |-> MonMemBytes - RegionBytes] >>

\* multiboot2_parse: the regions it adds when the boot information holds
\* only the basic memory tag, when it holds no memory tag at all, and when
\* it holds a memory map with a hole
MemoryMaps ==
    { << [base |-> kernel_start, size |-> MonMemBytes - kernel_start] >>,
      << [base |-> RegionBytes, size |-> MonMemBytes - RegionBytes] >>,
      HoleMap }

(***************************************************************************)
(* State.  pmm_state is the allocator; the next six variables record the   *)
(* calls made so far in the allocator's specification; the others are the  *)
(* machine of the monitor's specification.                                 *)
(***************************************************************************)
VARIABLES
    pmm_state,   \* the pmm_state_t record
    last,        \* the last call and its result: [op, a, b, ret]
    pair,        \* progress of "a = alloc(0); b = alloc(0); free; free"
    nregions,    \* pmm_add_region calls made
    nreserves,   \* pmm_reserve_region calls made
    nops,        \* pmm_alloc / pmm_free calls made
    base_free,   \* free_pages when pmm_init's last call returned
    block_count_before,  \* pmm_state.block_count before the last allocator call
    pcd_state,   \* the pcd_state_t record
    pt_mem,      \* the memory that holds page tables
    mon_state,   \* the monitor's globals
    cr3,         \* the CR3 register of the boot processor
    cr0_wp,      \* the WP bit of CR0
    saved_cr3,   \* the CR3 value the trampoline saved
    phase,       \* how far kernel_main has come
    pc,          \* "run", or inside the trampoline: "handler", "restore"
    req,         \* the monitor call the trampoline carries
    mon_ret,     \* the last monitor call and its monitor_ret_t
    held,        \* the blocks the monitor calls gave to the outer kernel
    ncalls,      \* monitor calls made
    memory_map,  \* the regions multiboot2_parse adds
    smp,         \* the SMP globals of smp.c and each processor's position
    fault,       \* the CPU that takes a page fault
    locks,       \* the test locks, the shared counter and the CPUs that use them
    harness,     \* the phase counter, the barrier and the CPUs of the SMP tests
    mbi          \* the boot information and how far multiboot2_parse has come

pmmHist == <<last, pair, nregions, nreserves, nops, base_free,
            block_count_before>>

monVars == <<pcd_state, pt_mem, mon_state, cr3, cr0_wp, saved_cr3, phase, pc,
             req, mon_ret, held, ncalls, memory_map>>

vars == <<pmm_state, pmmHist, monVars, smp, fault, locks, harness, mbi>>

\* smp.h: the number of CPU slots and the states of a slot
SMP_MAX_CPUS == 4
CPU_OFFLINE == 0
CPU_BOOTING == 1
CPU_ONLINE == 2
CPU_READY == 3

\* the slots of cpu_info[], and the application processors the BSP targets
CpuSlots == 0..(SMP_MAX_CPUS - 1)
ApSlots == 1..(SMP_MAX_CPUS - 1)

\* CPUs that contend for the test locks, and lock rounds of each
NumLockCpus == 3
LockRounds == 2
LockCpus == 1..NumLockCpus

\* test_lock1, test_lock2, test_rwlock and shared_counter of
\* spinlock_test.c as loaded, every CPU before its first lock operation
LocksBoot ==
    [ test |-> "none",
      test_lock1 |-> 0,
      test_lock2 |-> 0,
      test_rwlock |-> 0,
      shared_counter |-> 0,
      cpu |-> [c \in LockCpus |->
                  [pc |-> "idle", tmp |-> 0, round |-> 0, spun |-> FALSE]] ]

\* multiboot2_parse not yet called: no boot information read, no region
\* handed to pmm_add_region
MbiBoot ==
    [ pc |-> "boot", info |-> << >>, pos |-> 0, found_memory |-> FALSE,
      fed |-> << >> ]

\* BARRIER_TIMEOUT of spinlock_test.c, scaled down
BARRIER_TIMEOUT == 2

\* polls of one wait loop the model follows
MaxPolls == BARRIER_TIMEOUT + 1

\* the CPUs of the SMP tests: the BSP (0) and one AP (1)
HarnessCpus == 2

\* the harness globals of spinlock_test.c as loaded, the BSP before
\* run_spinlock_tests' SMP part, the AP not yet in spinlock_test_ap_entry
HarnessBoot ==
    [ test_phase |-> 0,
      test_barrier |-> 0,
      test8_ready |-> 0,
      shared_counter |-> 0,
      test_counter |-> [c \in 0..(HarnessCpus - 1) |-> 0],
      failures |-> 0,
      bsp |-> [pc |-> "idle", timeout |-> 0, polls |-> 0, bar_ret |-> 0],
      ap |-> [pc |-> "absent", phase |-> 0, timeout |-> 0, polls |-> 0,
              ret |-> 0] ]

\* the CPU that may take a page fault: not faulted yet
NoFault ==
    [pc |-> "run", fault_addr |-> 0, error_code |-> 0, wakes |-> 0,
     ports |-> << >>]

\* the IPIs of one ap_startup, in the order the code sends them
IpiSeq == <<"INIT_ASSERT", "INIT_DEASSERT", "STARTUP", "STARTUP">>

\* what the local APIC of the BSP has seen for one slot: no ap_startup yet
NoIpi == [tried |-> FALSE, sent |-> << >>, acked |-> 0, ret |-> 0]

\* the SMP globals as the image loads them (.bss/.data of smp.c, boot.S),
\* the BSP not yet in smp_init, every AP still held in reset.
\* bsp_init_done is defined in boot.S and only declared in smp.c; it is
\* taken to load as 0, the value ap_start's wait loop expects.
SmpBoot ==
    [ cpu_info |-> [i \in CpuSlots |-> CPU_OFFLINE],
      ready_cpus |-> 0,
      next_cpu_id |-> 0,
      bsp_init_complete |-> 0,
      current_cpu_index |-> 0,
      bsp |-> [pc |-> "boot", i |-> 0, ret |-> 0],
      ap |-> [k \in ApSlots |->
                 [pc |-> "reset", my_index |-> 0, tmp |-> 0,
                  stack |-> 0, cr3 |-> 0, wp |-> FALSE, verified |-> FALSE]],
      ipi |-> [k \in ApSlots |-> NoIpi] ]

NoRet ==
    [ call |-> -1, arg1 |-> 0, arg2 |-> 0, arg3 |-> 0, type |-> 0,
      result |-> 0, error |-> 0, pte_same |-> TRUE, via |-> "none",
      wrap |-> "none", own |-> FALSE, phase |-> "entry" ]

NoReq == [call |-> -1, arg1 |-> 0, arg2 |-> 0, arg3 |-> 0, wrap |-> "none"]

MemBytes == MemPages * PAGE_SIZE

\* the memory-map entries handed to pmm_add_region
AddBases == {0, PAGE_SIZE, PAGE_SIZE + HalfPage}

AddSizes == {2 * PAGE_SIZE + HalfPage, 4 * PAGE_SIZE, MemBytes}

\* the windows handed to pmm_reserve_region
ReserveBases == {PAGE_SIZE, PAGE_SIZE + HalfPage, 3 * PAGE_SIZE}

ReserveSizes == {PAGE_SIZE, PAGE_SIZE + HalfPage, 2 * PAGE_SIZE}

\* an address that is the base of no block
BogusAddr == MemBytes + PAGE_SIZE

Call(op, a, b, ret) == [op |-> op, a |-> a, b |-> b, ret |-> ret]

NoPair == [stage |-> 0, a |-> 0, b |-> 0, x |-> 0]

\* the scenario of two consecutive single-page allocations that are both
\* freed and followed by alloc(1): stage 1 after a = alloc(0), 2 after
\* b = alloc(0), 3 after one of them is freed (x), 4 after both are, 5 after
\* x = alloc(1)
PairAfterAlloc(order, ret) ==
    IF order = 0 /\ ret # 0
    THEN IF pair.stage = 1
         THEN [stage |-> 2, a |-> pair.a, b |-> ret, x |-> 0]
         ELSE [stage |-> 1, a |-> ret, b |-> 0, x |-> 0]
    ELSE IF order = 1 /\ pair.stage = 4
    THEN [pair EXCEPT !.stage = 5, !.x = ret]
    ELSE NoPair

PairAfterFree(addr) ==
    IF pair.stage = 2 /\ addr \in {pair.a, pair.b}
    THEN [pair EXCEPT !.stage = 3, !.x = addr]
    ELSE IF pair.stage = 3 /\ addr \in {pair.a, pair.b} /\ addr # pair.x
    THEN [pair EXCEPT !.stage = 4, !.x = 0]
    ELSE NoPair

PmmInit ==
    /\ pmm_state = PmmEmpty
    /\ last = Call("init", 0, 0, 0)
    /\ pair = NoPair
    /\ block_count_before = 0
    /\ nregions = 0
    /\ nreserves = 0
    /\ nops = 0
    /\ base_free = 0
    /\ pcd_state = PcdEmpty
    /\ pt_mem = BootTables
    /\ mon_state = MonEmpty
    /\ cr3 = boot_pml4
    /\ cr0_wp = FALSE
    /\ saved_cr3 = 0
    /\ phase = "pmm"
    /\ pc = "run"
    /\ req = NoReq
    /\ mon_ret = NoRet
    /\ held = {}
    /\ ncalls = 0
    /\ memory_map = << >>
    /\ smp = SmpBoot
    /\ fault = NoFault
    /\ locks = LocksBoot
    /\ harness = HarnessBoot
    /\ mbi = MbiBoot

\* multiboot2_parse runs inside pmm_init, before any other call
AddRegion ==
    /\ nregions < MaxRegions
    /\ nreserves = 0
    /\ nops = 0
    /\ \E base \in AddBases, size \in AddSizes :
          /\ AlignUp(base) + AlignDown(size) <= MemBytes
          /\ pmm_state' = pmm_add_region(pmm_state, base, size)
          /\ last' = Call("add", base, size, 0)
    /\ pair' = NoPair
    /\ nregions' = nregions + 1
    /\ base_free' = pmm_get_free_pages(pmm_state')
    /\ block_count_before' = pmm_state.block_count
    /\ UNCHANGED <<nreserves, nops, monVars, smp, fault, locks, harness, mbi>>

\* pmm_init carves the reserved windows out before the allocator goes live
ReserveRegion ==
    /\ nreserves < MaxReserves
    /\ nregions > 0
    /\ nops = 0
    /\ \E base \in ReserveBases, size \in ReserveSizes :
          /\ pmm_state' = pmm_reserve_region(pmm_state, base, size)
          /\ last' = Call("reserve", base, size, 0)
    /\ pair' = NoPair
    /\ nreserves' = nreserves + 1
    /\ base_free' = pmm_get_free_pages(pmm_state')
    /\ block_count_before' = pmm_state.block_count
    /\ UNCHANGED <<nregions, nops, monVars, smp, fault, locks, harness, mbi>>

Alloc ==
    /\ nops < MaxOps
    /\ \E order \in 0..(MAX_ORDER + 1) :
          LET r == pmm_alloc(pmm_state, order)
          IN  /\ pmm_state' = r.state
              /\ last' = Call("alloc", 0, order, r.ret)
              /\ pair' = PairAfterAlloc(order, r.ret)
    /\ nops' = nops + 1
    /\ block_count_before' = pmm_state.block_count
    /\ UNCHANGED <<nregions, nreserves, base_free, monVars, smp, fault, locks, harness, mbi>>

\* a caller frees a block it holds, with the order it was allocated with
Free ==
    /\ nops < MaxOps
    /\ \E i \in 1..Len(pmm_state.allocated_blocks) :
          LET addr  == pmm_state.allocated_blocks[i].base_addr
              order == pmm_state.allocated_blocks[i].order
          IN  /\ pmm_state' = pmm_free(pmm_state, addr, order)
              /\ last' = Call("free", addr, order, 0)
              /\ pair' = PairAfterFree(addr)
    /\ nops' = nops + 1
    /\ block_count_before' = pmm_state.block_count
    /\ UNCHANGED <<nregions, nreserves, base_free, monVars, smp, fault, locks, harness, mbi>>

\* a caller frees an address it does not hold, or passes a bad order
FreeBad ==
    /\ nops < MaxOps
    /\ \E addr \in {BogusAddr} \cup
                   {pmm_state.allocated_blocks[i].base_addr :
                        i \in 1..Len(pmm_state.allocated_blocks)} :
          LET order == IF addr = BogusAddr THEN 0 ELSE MAX_ORDER + 1
          IN  /\ pmm_state' = pmm_free(pmm_state, addr, order)
              /\ last' = Call("freebad", addr, order, 0)
    /\ pair' = NoPair
    /\ nops' = nops + 1
    /\ block_count_before' = pmm_state.block_count
    /\ UNCHANGED <<nregions, nreserves, base_free, monVars, smp, fault, locks, harness, mbi>>

PmmNext == AddRegion \/ ReserveRegion \/ Alloc \/ Free \/ FreeBad

PmmSpec == PmmInit /\ [][PmmNext]_vars

(***************************************************************************)
(* The monitor's specification: the boot of the kernel (pmm_init,          *)
(* pcd_init, monitor_init, the switch to the outer view) and the monitor   *)
(* calls of the outer kernel.                                              *)
(***************************************************************************)
\* the record the monitor's operators work on
Sys == [pmm |-> pmm_state, pcd |-> pcd_state, pt |-> pt_mem,
        mon |-> mon_state]

\* physical addresses the outer kernel passes to the monitor: a page table,
\* the middle of a page of kernel code, its own stacks, the last frame of
\* memory, and the blocks it was given
ProbeAddrs ==
    {boot_pml4, kernel_text + HalfPage, ok_cpu_stacks,
     MonMemBytes - PAGE_SIZE} \cup {h.addr : h \in held}

\* an address that is the base of no block
BogusPhys == MonMemBytes + PAGE_SIZE

\* a call number the dispatcher does not know
BadCall == MONITOR_CALL_ALLOC_PGTABLE + 1

\* a monitor_call made by the outer kernel itself; wrap names the wrapper
\* (monitor_pmm_alloc, monitor_pmm_free, monitor_alloc_pgtable) when the
\* call is made by one
Req(call, arg1, arg2, arg3) ==
    [call |-> call, arg1 |-> arg1, arg2 |-> arg2, arg3 |-> arg3,
     wrap |-> "none"]

\* the call that the wrapper `wrap` makes
Wrapped(call, arg1, arg2, wrap) ==
    [call |-> call, arg1 |-> arg1, arg2 |-> arg2, arg3 |-> 0, wrap |-> wrap]

\* the monitor calls the outer kernel can make
Requests ==
    {Req(c, o, 0, 0) : c \in {MONITOR_CALL_ALLOC_PHYS,
                              MONITOR_CALL_ALLOC_PGTABLE},
                       o \in {0, MAX_ORDER}}
    \cup {Req(MONITOR_CALL_FREE_PHYS, a, 0, 0) :
              a \in {h.addr : h \in held} \cup {BogusPhys}}
    \cup {Req(MONITOR_CALL_SET_PAGE_TYPE, a, t, 0) :
              a \in ProbeAddrs,
              t \in {PCD_TYPE_OK_NORMAL, PCD_TYPE_NK_PGTABLE,
                     PCD_TYPE_MAX + 1}}
    \cup {Req(MONITOR_CALL_GET_PAGE_TYPE, a, 0, 0) : a \in ProbeAddrs}
    \cup {Req(MONITOR_CALL_MAP_PAGE, a, NESTED_KERNEL_RO_BASE + RegionBytes,
              f) : a \in ProbeAddrs,
                   f \in {X86_PTE_PRESENT, PresentWritable}}
    \cup {Req(MONITOR_CALL_UNMAP_PAGE, kernel_text, 0, 0)}
    \cup {Req(BadCall, 0, 0, 0)}
    \cup {Wrapped(MONITOR_CALL_ALLOC_PHYS, o, 0, "pmm_alloc") :
              o \in {0, MAX_ORDER}}
    \cup {Wrapped(MONITOR_CALL_FREE_PHYS, h.addr, h.order, "pmm_free") :
              h \in held}
    \cup {Wrapped(MONITOR_CALL_ALLOC_PGTABLE, 0, 0, "alloc_pgtable")}

\* the blocks the outer kernel holds after the call r returned ret
HeldAfter(r, ret) ==
    IF r.call \in {MONITOR_CALL_ALLOC_PHYS, MONITOR_CALL_ALLOC_PGTABLE}
       /\ ret.result # 0
    THEN held \cup {[addr |-> ret.result, order |-> r.arg1,
                     pgtable |-> r.call = MONITOR_CALL_ALLOC_PGTABLE,
                     wrap |-> r.wrap]}
    ELSE IF r.call = MONITOR_CALL_FREE_PHYS
    THEN {h \in held : h.addr # r.arg1}
    ELSE held

\* monitor_call: the path it takes, given the value of CR3
monitor_call(m, cr3_value) ==
    IF m.monitor_pml4_phys = 0 THEN "direct"
    ELSE IF monitor_is_privileged(m, cr3_value) THEN "direct"
    ELSE "trampoline"

\* what the wrapper that made the call r does once monitor_call returned
\* ret: the new PCD
WrapperReturn(p, r, ret) ==
    IF r.wrap = "pmm_alloc" THEN monitor_pmm_alloc(p, ret.result, r.arg1)
    ELSE p

\* the dispatcher runs on the request r; `via` is the path it was reached
\* by.  A call made directly returns in the same step, into its wrapper.
Dispatch(r, via) ==
    \E h \in {monitor_call_handler(Sys, r.call, r.arg1, r.arg2, r.arg3)} :
        /\ pmm_state' = h.state.pmm
        /\ pcd_state' = IF via = "direct"
                        THEN WrapperReturn(h.state.pcd, r, h.ret)
                        ELSE h.state.pcd
        /\ pt_mem' = h.state.pt
        /\ mon_state' = h.state.mon
        /\ held' = HeldAfter(r, h.ret)
        /\ mon_ret' = [ call |-> r.call, arg1 |-> r.arg1, arg2 |-> r.arg2,
                        arg3 |-> r.arg3,
                        type |-> pcd_get_type(pcd_state, r.arg1),
                        result |-> h.ret.result, error |-> h.ret.error,
                        pte_same |-> h.state.pt = pt_mem, via |-> via,
                        wrap |-> r.wrap,
                        own |-> \E b \in held :
                                   /\ b.addr = r.arg1
                                   /\ b.order = r.arg2
                                   /\ b.wrap = "pmm_alloc",
                        phase |-> phase ]

\* the state kernel_main is entered in, whatever the memory map and the
\* size of the descriptor pool are
MonBoot ==
    /\ pcd_state = PcdEmpty
    /\ pt_mem = BootTables
    /\ mon_state = MonEmpty
    /\ cr3 = boot_pml4
    /\ cr0_wp = FALSE
    /\ saved_cr3 = 0
    /\ phase = "entry"
    /\ pc = "run"
    /\ req = NoReq
    /\ mon_ret = NoRet
    /\ held = {}
    /\ ncalls = 0
    /\ last = Call("init", 0, 0, 0)
    /\ pair = NoPair
    /\ block_count_before = 0
    /\ nregions = 0
    /\ nreserves = 0
    /\ nops = 0
    /\ base_free = 0
    /\ smp = SmpBoot
    /\ fault = NoFault
    /\ locks = LocksBoot
    /\ harness = HarnessBoot
    /\ mbi = MbiBoot

MonInit ==
    /\ memory_map \in MemoryMaps
    /\ pmm_state = [PmmEmpty EXCEPT !.pool_size = MonBlockDesc]
    /\ MonBoot

\* kernel_main, lines 76-81: pmm_init and pcd_init
KernelBoot ==
    /\ phase = "entry"
    /\ \E s \in {pmm_init(pmm_state, memory_map)} :
          \E b \in {pcd_init(s)} :
              /\ pmm_state' = b.pmm
              /\ pcd_state' = b.pcd
    /\ phase' = "pmm_ready"
    /\ UNCHANGED <<pt_mem, mon_state, cr3, cr0_wp, saved_cr3, pc, req,
                   mon_ret, held, ncalls, memory_map, pmmHist, smp, fault, locks, harness, mbi>>

\* kernel_main, line 161
MonitorInit ==
    /\ phase = "pmm_ready"
    /\ pc = "run"
    /\ \E S \in {monitor_init(Sys)} :
           /\ pmm_state' = S.pmm
           /\ pcd_state' = S.pcd
           /\ pt_mem' = S.pt
           /\ mon_state' = S.mon
    /\ phase' = "mon_ready"
    /\ UNCHANGED <<cr3, cr0_wp, saved_cr3, pc, req, mon_ret, held, ncalls,
                   memory_map, pmmHist, smp, fault, locks, harness, mbi>>

\* kernel_main, lines 184-199: CR0.WP is set and CR3 is loaded with the
\* root of the unprivileged view, unless monitor_init failed
SwitchToOuter ==
    /\ phase = "mon_ready"
    /\ pc = "run"
    /\ LET unpriv_cr3 == monitor_get_unpriv_cr3(mon_state)
       IN  IF unpriv_cr3 # 0
           THEN cr0_wp' = TRUE /\ cr3' = unpriv_cr3
           ELSE UNCHANGED <<cr0_wp, cr3>>
    /\ phase' = "outer"
    /\ UNCHANGED <<pmm_state, pcd_state, pt_mem, mon_state, saved_cr3, pc,
                   req, mon_ret, held, ncalls, memory_map, pmmHist, smp, fault, locks, harness, mbi>>

\* monitor_call, lines 788-796: the dispatcher is called directly
DirectCall ==
    /\ phase \in {"pmm_ready", "outer"}
    /\ pc = "run"
    /\ ncalls < MaxCalls
    /\ monitor_call(mon_state, cr3) = "direct"
    /\ \E r \in Requests : Dispatch(r, "direct")
    /\ ncalls' = ncalls + 1
    /\ UNCHANGED <<cr3, cr0_wp, saved_cr3, phase, pc, req, memory_map,
                   pmmHist, smp, fault, locks, harness, mbi>>

\* monitor_call, line 799, and the entry of nk_entry_trampoline: CR3 is
\* saved and loaded with the root of the monitor's view
TrampolineEnter ==
    /\ phase \in {"pmm_ready", "outer"}
    /\ pc = "run"
    /\ ncalls < MaxCalls
    /\ monitor_call(mon_state, cr3) = "trampoline"
    /\ \E r \in Requests : req' = r
    /\ saved_cr3' = cr3
    /\ cr3' = mon_state.monitor_pml4_phys
    /\ pc' = "handler"
    /\ ncalls' = ncalls + 1
    /\ UNCHANGED <<pmm_state, pcd_state, pt_mem, mon_state, cr0_wp, phase,
                   mon_ret, held, memory_map, pmmHist, smp, fault, locks, harness, mbi>>

\* nk_entry_trampoline calls monitor_call_handler
TrampolineDispatch ==
    /\ pc = "handler"
    /\ Dispatch(req, "trampoline")
    /\ pc' = "restore"
    /\ UNCHANGED <<cr3, cr0_wp, saved_cr3, phase, req, ncalls, memory_map,
                   pmmHist, smp, fault, locks, harness, mbi>>

\* a store to addr faults under the page tables rooted at root: the page
\* is not present, or it is read-only and CR0.WP is set
StoreFaults(root, addr) ==
    \/ ~Walk(pt_mem, root, addr).present
    \/ ~Walk(pt_mem, root, addr).writable /\ cr0_wp

\* the stores of pcd_set_type(addr, type), lines 199-207: the lock of
\* pcd_state, a global of the kernel image, and, for a managed frame, the
\* entry of the frame in the array
PcdStores(p, addr) ==
    {kernel_text} \cup
    (IF pcd_is_managed(p, AlignDown(addr))
     THEN {AlignDown(p.pages + pcd_get_index(p, AlignDown(addr))
                                  * PcdEntrySize)}
     ELSE {})

\* monitor_pmm_alloc, lines 807-813, run under the page tables rooted at
\* root after monitor_call returned ret: one of its stores faults
WrapperFaults(root, r, ret) ==
    /\ r.wrap = "pmm_alloc"
    /\ ret.result # 0
    /\ pcd_is_initialized(pcd_state)
    /\ \E i \in 0..(Pow2(r.arg1) - 1) :
          \E a \in PcdStores(pcd_state, ret.result + i * PAGE_SIZE) :
              StoreFaults(root, a)

\* nk_entry_trampoline restores the saved CR3 and returns, into the wrapper
\* when the call was made by one; a store of the wrapper that the restored
\* view does not allow ends in page_fault_handler, which halts
TrampolineReturn ==
    /\ pc = "restore"
    /\ cr3' = saved_cr3
    /\ req' = NoReq
    /\ IF WrapperFaults(saved_cr3, req, mon_ret)
       THEN /\ pc' = "fault"
            /\ pcd_state' = pcd_state
       ELSE /\ pc' = "run"
            /\ pcd_state' = WrapperReturn(pcd_state, req, mon_ret)
    /\ UNCHANGED <<pmm_state, pt_mem, mon_state, cr0_wp,
                   saved_cr3, phase, mon_ret, held, ncalls, memory_map,
                   pmmHist, smp, fault, locks, harness, mbi>>

\* monitor_pcd_set_type, lines 823-825: pcd_set_type is called with no
\* monitor_call, under the page tables the caller runs on
MonitorPcdSetType ==
    /\ phase \in {"pmm_ready", "outer"}
    /\ pc = "run"
    /\ ncalls < MaxCalls
    /\ \E a \in ProbeAddrs, t \in {PCD_TYPE_OK_NORMAL, PCD_TYPE_NK_PGTABLE} :
          IF /\ pcd_is_initialized(pcd_state)
             /\ \E x \in PcdStores(pcd_state, a) : StoreFaults(cr3, x)
          THEN /\ pc' = "fault"
               /\ pcd_state' = pcd_state
          ELSE /\ pc' = pc
               /\ pcd_state' = pcd_set_type(pcd_state, a, t)
    /\ mon_ret' = NoRet
    /\ ncalls' = ncalls + 1
    /\ UNCHANGED <<pmm_state, pt_mem, mon_state, cr3, cr0_wp, saved_cr3,
                   phase, req, held, memory_map, pmmHist, smp, fault, locks,
                   harness, mbi>>

MonNext ==
    \/ KernelBoot
    \/ MonitorInit
    \/ SwitchToOuter
    \/ DirectCall
    \/ TrampolineEnter
    \/ TrampolineDispatch
    \/ TrampolineReturn
    \/ MonitorPcdSetType

MonitorSpec == MonInit /\ [][MonNext]_vars

(***************************************************************************)
(* Properties of the allocator                                             *)
(***************************************************************************)
\* the bases of the blocks on the order-o free list
FreeBlocksOf(s, o) == {s.free_lists[o][i] : i \in 1..Len(s.free_lists[o])}

\* C5: conservation.  Once every block that was allocated has been freed
\* again, pmm_get_free_pages() is back at the value it had when the
\* allocator went live.
C5_Conservation ==
    (nops > 0 /\ pmm_state.allocated_blocks = << >>)
        => pmm_get_free_pages(pmm_state) = base_free

\* C6: alignment.  The address a pmm_alloc(k) returns is a multiple of
\* PAGE_SIZE << k (the null result 0 included), after any calls of
\* add_region, reserve_region, alloc and free.
C6_AllocAligned ==
    (last.op = "alloc" /\ last.b <= MAX_ORDER)
        => IsAligned(last.ret, BlockSize(last.b))

\* C6 witness: an allocation of more than one page succeeded after a window
\* was reserved and earlier blocks were allocated and freed
C6_Witness ==
    /\ last.op = "alloc"
    /\ last.b >= 1
    /\ last.ret # 0
    /\ nreserves > 0
    /\ nops >= 3

\* C7: no free buddies.  Once the reserved windows are carved out, and
\* after every later alloc and free, no free list of an order k < MAX_ORDER
\* holds two blocks that are buddies of each other.
C7_NoFreeBuddies ==
    (last.op \in {"reserve", "alloc", "free", "freebad"})
        => \A k \in 0..(MAX_ORDER - 1) :
              \A b \in FreeBlocksOf(pmm_state, k) :
                  get_buddy_addr(b, k) \notin FreeBlocksOf(pmm_state, k)

\* C8: a = alloc(0); b = alloc(0), the buddy of a; both are freed; then
\* alloc(1) returns min(a, b), the base of the merged block.
C8_PairCoalesced ==
    (pair.stage = 5 /\ pair.b = get_buddy_addr(pair.a, 0))
        => pair.x = Min(pair.a, pair.b)

\* C9: right after pmm_reserve_region(base, size) no free block contains a
\* byte of [base, base + size), whatever the alignment of base and size.
C9_ReservedNotFree ==
    last.op = "reserve"
        => \A o \in Orders : \A b \in FreeBlocksOf(pmm_state, o) :
              ~(last.a < b + BlockSize(o) /\ last.a + last.b > b)

\* C10: when the descriptor pool is exhausted while pmm_alloc splits a
\* block, the condition is logged and pmm_alloc returns null.
C10_PoolExhaustedFails ==
    (last.op = "alloc" /\ pmm_state.desc_err) => last.ret = 0

(***************************************************************************)
(* Properties of the monitor                                               *)
(***************************************************************************)
\* the virtual pages the unprivileged view can map memory at: the one-to-one
\* addresses and the read-only aliases
VirtAddrs == FrameAddrs \cup {NESTED_KERNEL_RO_BASE + a : a \in FrameAddrs}

\* the translation of vaddr in the unprivileged view
OuterWalk(vaddr) == Walk(pt_mem, mon_state.unpriv_pml4_phys, vaddr)

\* monitor_init has completed
MonitorReady ==
    /\ phase \in {"mon_ready", "outer"}
    /\ mon_state.unpriv_pml4_phys # 0

\* the frames of the blocks AllocPageTable handed out
PgtableFrames ==
    UNION {{h.addr + i * PAGE_SIZE : i \in 0..(Pow2(h.order) - 1)} :
              h \in {x \in held : x.pgtable}}

\* the pages in use as page-table pages: the boot tables, the tables of
\* monitor_init and of the read-only aliases, and the AllocPageTable blocks
PageTablePages == (DOMAIN pt_mem) \cup PgtableFrames

\* C1: after monitor_init, and after any monitor calls, a translation of
\* the unprivileged view is writable only if the PCD type of its target
\* frame is OK_NORMAL or NK_IO.
C1_OuterWritableOnlyOk ==
    MonitorReady =>
        \A v \in VirtAddrs :
            (OuterWalk(v).present /\ OuterWalk(v).writable)
                => pcd_get_type(pcd_state, OuterWalk(v).phys)
                       \in {PCD_TYPE_OK_NORMAL, PCD_TYPE_NK_IO}

\* C2: a MapPage call that asks for a writable mapping of a frame whose PCD
\* type is NK_NORMAL or NK_PGTABLE returns error = -1 and changes no
\* page-table entry.
C2_MapRejected ==
    (/\ mon_ret.call = MONITOR_CALL_MAP_PAGE
     /\ HasFlag(mon_ret.arg3, X86_PTE_WRITABLE)
     /\ mon_ret.type \in {PCD_TYPE_NK_NORMAL, PCD_TYPE_NK_PGTABLE})
        => (mon_ret.error = -1 /\ mon_ret.pte_same)

\* C2 witness: the outer kernel asked, through the trampoline, for a
\* writable mapping of a page-table page and was refused
C2_Witness ==
    /\ mon_ret.call = MONITOR_CALL_MAP_PAGE
    /\ HasFlag(mon_ret.arg3, X86_PTE_WRITABLE)
    /\ mon_ret.type = PCD_TYPE_NK_PGTABLE
    /\ mon_ret.via = "trampoline"
    /\ mon_ret.error = -1

\* C3: after monitor_init, no translation of the unprivileged view to a
\* page in use as a page-table page is writable.
C3_TablesReadOnly ==
    MonitorReady =>
        \A v \in VirtAddrs :
            (OuterWalk(v).present /\ OuterWalk(v).phys \in PageTablePages)
                => ~OuterWalk(v).writable

PcdAddrs ==
    {0, kernel_text + HalfPage, ok_cpu_stacks, RegionBytes - PAGE_SIZE,
     RegionBytes, MonMemBytes - PAGE_SIZE, BogusPhys, ApicBase}

\* types: three of the four valid ones and one that is not a type
PcdTypes ==
    {PCD_TYPE_OK_NORMAL, PCD_TYPE_NK_PGTABLE, PCD_TYPE_NK_IO,
     PCD_TYPE_MAX + 1}

PcdBases ==
    {0, kernel_text + HalfPage, RegionBytes - PAGE_SIZE,
     MonMemBytes - PAGE_SIZE}

PcdSizes == {PAGE_SIZE, 2 * PAGE_SIZE + HalfPage}

PcdSetType ==
    /\ phase \in {"entry", "pmm_ready"}
    /\ nops < MaxPcdOps
    /\ \E a \in PcdAddrs, t \in PcdTypes :
           /\ pcd_state' = pcd_set_type(pcd_state, a, t)
           /\ last' = Call("set", a, t, 0)
    /\ nops' = nops + 1
    /\ UNCHANGED <<pmm_state, pair, nregions, nreserves, base_free, block_count_before, pt_mem,
                   mon_state, cr3, cr0_wp, saved_cr3, phase, pc, req,
                   mon_ret, held, ncalls, memory_map, smp, fault, locks, harness, mbi>>

PcdGetType ==
    /\ phase \in {"entry", "pmm_ready"}
    /\ nops < MaxPcdOps
    /\ \E a \in PcdAddrs :
           last' = Call("get", a, 0, pcd_get_type(pcd_state, a))
    /\ nops' = nops + 1
    /\ UNCHANGED <<pmm_state, pair, nregions, nreserves, base_free, block_count_before,
                   pcd_state, pt_mem, mon_state, cr3, cr0_wp, saved_cr3,
                   phase, pc, req, mon_ret, held, ncalls, memory_map, smp, fault, locks, harness, mbi>>

PcdMarkRegion ==
    /\ phase \in {"entry", "pmm_ready"}
    /\ nops < MaxPcdOps
    /\ \E base \in PcdBases, size \in PcdSizes, t \in PcdTypes :
           /\ pcd_state' = pcd_mark_region(pcd_state, base, size, t)
           /\ last' = Call("mark", base, size, t)
    /\ nops' = nops + 1
    /\ UNCHANGED <<pmm_state, pair, nregions, nreserves, base_free, block_count_before, pt_mem,
                   mon_state, cr3, cr0_wp, saved_cr3, phase, pc, req,
                   mon_ret, held, ncalls, memory_map, smp, fault, locks, harness, mbi>>

PcdNext ==
    \/ KernelBoot
    \/ PcdSetType
    \/ PcdGetType
    \/ PcdMarkRegion

PcdSpec == MonInit /\ [][PcdNext]_vars

\* the number of PCD entries the largest block of the allocator holds
ArrayCapacity == BlockSize(MAX_ORDER) \div PcdEntrySize

\* memory maps of a machine with about as many pages as that: one region
\* from the kernel's load address up
BigMaps ==
    { << [base |-> kernel_start, size |-> n * PAGE_SIZE] >> :
          n \in (ArrayCapacity - 1)..(ArrayCapacity + 1) }

BigInit ==
    /\ memory_map \in BigMaps
    /\ pmm_state = [PmmEmpty EXCEPT !.pool_size = MAX_BLOCK_DESC]
    /\ MonBoot

BigMemSpec == BigInit /\ [][PcdNext]_vars

\* ---------------------------------------------------------------------
\* SMP bring-up: smp_init, smp_start_all_aps and ap_startup on the boot
\* processor, ap_start on every application processor that was started
\* ---------------------------------------------------------------------

\* an smp_init that starts the index counter at the BSP's own index
smp_init_ZeroNext(s) ==
    [s EXCEPT !.current_cpu_index = 0,
              !.next_cpu_id = 0,
              !.ready_cpus = 0,
              !.cpu_info = [i \in CpuSlots |->
                               IF i = 0 THEN CPU_ONLINE ELSE CPU_OFFLINE]]

\* smp_init, lines 121-143
smp_init(s) ==
    [s EXCEPT !.current_cpu_index = 0,
              !.next_cpu_id = 1,
              !.ready_cpus = 0,
              !.cpu_info = [i \in CpuSlots |->
                               IF i = 0 THEN CPU_ONLINE ELSE CPU_OFFLINE]]

\* smp_mark_cpu_ready, lines 101-106, run with no other processor awake
smp_mark_cpu_ready(s, cpu_index) ==
    IF cpu_index >= 0 /\ cpu_index < SMP_MAX_CPUS
    THEN [s EXCEPT !.cpu_info[cpu_index] = CPU_READY,
                   !.ready_cpus = s.ready_cpus + 1]
    ELSE s

\* what the four lapic_wait_for_ipi calls of one ap_startup can see: each
\* either finds the delivery status clear or runs out of its 1000000 polls
IpiDelivery == [1..4 -> BOOLEAN]

\* the number of IPIs of ap_startup whose delivery was confirmed before a
\* lapic_wait_for_ipi timed out (lines 937, 960, 1016, 1055)
IpiAcked(d) ==
    IF ~d[1] THEN 0
    ELSE IF ~d[2] THEN 1
    ELSE IF ~d[3] THEN 2
    ELSE IF ~d[4] THEN 3
    ELSE 4

\* an ap_startup that goes on to the next IPI whatever the wait returned
ap_startup_IgnoreTimeout(present, d) ==
    [ ret |-> IF d[1] /\ d[2] /\ d[3] /\ d[4] THEN 0 ELSE -1,
      started |-> present /\ d[3],
      sent |-> IpiSeq,
      acked |-> IpiAcked(d) ]

\* ap_startup: INIT assert, INIT deassert, STARTUP, second STARTUP; -1 at
\* the first wait that times out, 0 after the fourth. The target runs the
\* trampoline once a STARTUP was delivered to a processor that is present.
ap_startup(present, d) ==
    [ ret |-> IF IpiAcked(d) = Len(IpiSeq) THEN 0 ELSE -1,
      started |-> present /\ IpiAcked(d) >= 3,
      sent |-> SubSeq(IpiSeq, 1, Min(IpiAcked(d) + 1, Len(IpiSeq))),
      acked |-> IpiAcked(d) ]

smpFrame == <<pmm_state, pmmHist, monVars, fault, locks, harness, mbi>>

\* kernel_main line 133: smp_init()
SmpInitCall ==
    /\ smp.bsp.pc = "boot"
    /\ smp' = [smp_init(smp) EXCEPT !.bsp.pc = "main"]
    /\ UNCHANGED smpFrame

\* kernel_main line 236: smp_mark_cpu_ready(0), then smp_start_all_aps
\* is entered with i = 1
BspMarkReady ==
    /\ smp.bsp.pc = "main"
    /\ smp' = [smp_mark_cpu_ready(smp, 0) EXCEPT !.bsp.pc = "mark", !.bsp.i = 1]
    /\ UNCHANGED smpFrame

\* smp_start_all_aps line 186: cpu_info[i].state = CPU_BOOTING
BspMarkBooting ==
    /\ smp.bsp.pc = "mark"
    /\ smp.bsp.i < SMP_MAX_CPUS
    /\ smp' = [smp EXCEPT !.cpu_info[smp.bsp.i] = CPU_BOOTING,
                          !.bsp.pc = "ipi"]
    /\ UNCHANGED smpFrame

\* smp_start_all_aps line 189: ret = ap_startup(apic_id, TRAMPOLINE_PAGE).
\* A started AP runs the trampoline, which loads the boot_pml4 that
\* patch_ap_trampoline wrote into it; what the trampoline leaves in CR0.WP
\* is not fixed by smp.c.
BspApStartup ==
    /\ smp.bsp.pc = "ipi"
    /\ \E present \in BOOLEAN, d \in IpiDelivery, cr0_wp_ap \in BOOLEAN :
          \E r \in {ap_startup(present, d)} :
              smp' = [smp EXCEPT
                        !.bsp.ret = r.ret,
                        !.bsp.pc = IF r.ret < 0 THEN "failed" ELSE "next",
                        !.ipi[smp.bsp.i] =
                            [tried |-> TRUE, sent |-> r.sent,
                             acked |-> r.acked, ret |-> r.ret],
                        !.ap[smp.bsp.i] =
                            IF r.started /\ smp.ap[smp.bsp.i].pc = "reset"
                            THEN [smp.ap[smp.bsp.i] EXCEPT
                                    !.pc = "wait",
                                    !.cr3 = boot_pml4,
                                    !.wp = cr0_wp_ap]
                            ELSE smp.ap[smp.bsp.i]]
    /\ UNCHANGED smpFrame

\* smp_start_all_aps lines 191-196: ret < 0, the slot is set Offline again
BspStartupFailed ==
    /\ smp.bsp.pc = "failed"
    /\ smp' = [smp EXCEPT !.cpu_info[smp.bsp.i] = CPU_OFFLINE,
                          !.bsp.pc = "next"]
    /\ UNCHANGED smpFrame

\* the for loop of line 177 steps to the next slot
BspNextAp ==
    /\ smp.bsp.pc = "next"
    /\ smp' = [smp EXCEPT !.bsp.i = smp.bsp.i + 1,
                          !.bsp.pc = IF smp.bsp.i + 1 < SMP_MAX_CPUS
                                     THEN "mark" ELSE "flag"]
    /\ UNCHANGED smpFrame

\* smp_start_all_aps line 201: bsp_init_complete = 1
BspInitComplete ==
    /\ smp.bsp.pc = "flag"
    /\ smp' = [smp EXCEPT !.bsp_init_complete = 1, !.bsp.pc = "done"]
    /\ UNCHANGED smpFrame

\* ap_start lines 238-240: the AP leaves the loop on bsp_init_complete
ApSeesBspInit(k) ==
    /\ smp.ap[k].pc = "wait"
    /\ smp.bsp_init_complete # 0
    /\ smp' = [smp EXCEPT !.ap[k].pc = "index"]
    /\ UNCHANGED smpFrame

\* ap_start lines 245-254: __sync_fetch_and_add(&next_cpu_id, 1) and the
\* range check on the index it got
ApTakeIndex(k) ==
    /\ smp.ap[k].pc = "index"
    /\ smp' = [smp EXCEPT
                 !.next_cpu_id = smp.next_cpu_id + 1,
                 !.ap[k].my_index = smp.next_cpu_id,
                 !.ap[k].pc = IF smp.next_cpu_id <= 0
                                  \/ smp.next_cpu_id >= SMP_MAX_CPUS
                              THEN "halted" ELSE "current"]
    /\ UNCHANGED smpFrame

\* ap_start line 257: current_cpu_index = my_index
ApSetCurrent(k) ==
    /\ smp.ap[k].pc = "current"
    /\ smp' = [smp EXCEPT !.current_cpu_index = smp.ap[k].my_index,
                          !.ap[k].pc = "online"]
    /\ UNCHANGED smpFrame

\* ap_start lines 260-263: rsp = top of ap_stacks[my_index], then
\* cpu_info[my_index].state = CPU_ONLINE
ApOnline(k) ==
    /\ smp.ap[k].pc = "online"
    /\ smp' = [smp EXCEPT !.cpu_info[smp.ap[k].my_index] = CPU_ONLINE,
                          !.ap[k].stack = smp.ap[k].my_index,
                          !.ap[k].pc = "ready"]
    /\ UNCHANGED smpFrame

\* smp_mark_cpu_ready line 103 on the AP: cpu_info[cpu_index].state = CPU_READY
ApReady(k) ==
    /\ smp.ap[k].pc = "ready"
    /\ smp' = [smp EXCEPT !.cpu_info[smp.ap[k].my_index] = CPU_READY,
                          !.ap[k].pc = "load"]
    /\ UNCHANGED smpFrame

\* smp_mark_cpu_ready line 104, ready_cpus++ on a volatile int: the load
ApLoadReady(k) ==
    /\ smp.ap[k].pc = "load"
    /\ smp' = [smp EXCEPT !.ap[k].tmp = smp.ready_cpus,
                          !.ap[k].pc = "store"]
    /\ UNCHANGED smpFrame

\* ready_cpus++: the store; the AP then halts (line 273)
ApStoreReady(k) ==
    /\ smp.ap[k].pc = "store"
    /\ smp' = [smp EXCEPT !.ready_cpus = smp.ap[k].tmp + 1,
                          !.ap[k].pc = "halted"]
    /\ UNCHANGED smpFrame

SmpInit ==
    /\ MonInit
    /\ memory_map[1].base = kernel_start
    /\ Len(memory_map) = 1

SmpNext ==
    \/ SmpInitCall
    \/ BspMarkReady
    \/ BspMarkBooting
    \/ BspApStartup
    \/ BspStartupFailed
    \/ BspNextAp
    \/ BspInitComplete
    \/ \E k \in ApSlots : ApSeesBspInit(k)
    \/ \E k \in ApSlots : ApTakeIndex(k)
    \/ \E k \in ApSlots : ApSetCurrent(k)
    \/ \E k \in ApSlots : ApOnline(k)
    \/ \E k \in ApSlots : ApReady(k)
    \/ \E k \in ApSlots : ApLoadReady(k)
    \/ \E k \in ApSlots : ApStoreReady(k)

SmpSpec == SmpInit /\ [][SmpNext]_vars

\* ---------------------------------------------------------------------
\* The page-fault path: page_fault_handler (idt.c) and system_shutdown
\* (power.c) on the CPU that faulted
\* ---------------------------------------------------------------------

\* bits of the page-fault error code
PF_PRESENT == 1
PF_WRITE == 2

SHUTDOWN_PORT_QEMU == 45060
SHUTDOWN_PORT_VBOX == 16388

\* times an interrupt wakes the CPU out of hlt
MaxWakes == 2

\* the addresses a fault is taken on
FaultAddrs ==
    {0, boot_pml4, kernel_text + HalfPage, nk_boot_stack_bottom,
     ok_cpu_stacks, MonMemBytes, NESTED_KERNEL_RO_BASE + boot_pml4}

ErrorCodes == {0, PF_PRESENT, PF_WRITE, PF_PRESENT + PF_WRITE}

faultFrame == <<pmm_state, pmmHist, monVars, smp, locks, harness, mbi>>

\* a handler that returns to the faulting code unless the fault was a
\* write to a present page
page_fault_handler_WriteOnly(fault_addr, error_code, fault_ip) ==
    IF HasFlag(error_code, PF_PRESENT) /\ HasFlag(error_code, PF_WRITE)
    THEN "shutdown"
    ELSE "run"

\* page_fault_handler, lines 186-198: where the CPU goes next. Its
\* arguments are not read; it calls system_shutdown.
page_fault_handler(fault_addr, error_code, fault_ip) == "shutdown"

\* the CPU takes a page fault; page_fault_isr enters page_fault_handler
TakePageFault ==
    /\ fault.pc = "run"
    /\ \E a \in FaultAddrs, c \in ErrorCodes :
          fault' = [fault EXCEPT !.pc = "handler", !.fault_addr = a,
                                 !.error_code = c]
    /\ UNCHANGED faultFrame

\* page_fault_handler lines 192-193
PageFaultHandler ==
    /\ fault.pc = "handler"
    /\ fault' = [fault EXCEPT
                   !.pc = page_fault_handler(fault.fault_addr,
                                             fault.error_code, 0)]
    /\ UNCHANGED faultFrame

\* system_shutdown line 23: outb to the QEMU port; the machine goes off
\* or the write has no effect
ShutdownQemu ==
    /\ fault.pc = "shutdown"
    /\ \E off \in BOOLEAN :
          fault' = [fault EXCEPT
                      !.pc = IF off THEN "off" ELSE "vbox",
                      !.ports = Append(fault.ports, SHUTDOWN_PORT_QEMU)]
    /\ UNCHANGED faultFrame

\* system_shutdown line 26: outb to the VirtualBox port
ShutdownVbox ==
    /\ fault.pc = "vbox"
    /\ \E off \in BOOLEAN :
          fault' = [fault EXCEPT
                      !.pc = IF off THEN "off" ELSE "hlt",
                      !.ports = Append(fault.ports, SHUTDOWN_PORT_VBOX)]
    /\ UNCHANGED faultFrame

\* system_shutdown lines 30-32: while (1) hlt; an interrupt ends one hlt
\* and the loop executes the next
ShutdownHalt ==
    /\ fault.pc = "hlt"
    /\ fault.wakes < MaxWakes
    /\ fault' = [fault EXCEPT !.wakes = fault.wakes + 1]
    /\ UNCHANGED faultFrame

FaultInit ==
    /\ MonInit
    /\ memory_map[1].base = kernel_start
    /\ Len(memory_map) = 1

FaultNext ==
    \/ TakePageFault
    \/ PageFaultHandler
    \/ ShutdownQemu
    \/ ShutdownVbox
    \/ ShutdownHalt

FaultSpec == FaultInit /\ [][FaultNext]_vars

\* ---------------------------------------------------------------------
\* Spin locks and read-write locks (spinlock_arch.h) under the lock tests
\* of spinlock_test.c
\* ---------------------------------------------------------------------

locksFrame == <<pmm_state, pmmHist, monVars, smp, fault, harness, mbi>>

\* a compare-and-swap that stores without comparing
sync_bool_compare_and_swap_Blind(val, old, new) ==
    [ok |-> TRUE, val |-> new]

\* __sync_bool_compare_and_swap(&lock->locked, 0, 1) of arch_spin_lock
sync_bool_compare_and_swap(val, old, new) ==
    [ok |-> val = old, val |-> IF val = old THEN new ELSE val]

\* __sync_fetch_and_add: the old value and the stored sum
sync_fetch_and_add(val, n) == [old |-> val, val |-> val + n]

LockPc(c) == locks.cpu[c].pc

\* test6_lock_contention / test10_deadlock_prevention, phase 1: the BSP
\* initialises the locks and the counter, the barrier releases all CPUs
StartLockTest ==
    /\ locks.test = "none"
    /\ \E t \in {"contention", "nested"} :
          locks' = [locks EXCEPT
                      !.test = t,
                      !.test_lock1 = 0,
                      !.test_lock2 = 0,
                      !.shared_counter = 0,
                      !.cpu = [c \in LockCpus |->
                                  [locks.cpu[c] EXCEPT !.pc = "l1"]]]
    /\ UNCHANGED locksFrame

\* arch_spin_lock(&test_lock1), line 55: one compare-and-swap
SpinLock1(c) ==
    /\ LockPc(c) = "l1"
    /\ \E r \in {sync_bool_compare_and_swap(locks.test_lock1, 0, 1)} :
          locks' = [locks EXCEPT
                      !.test_lock1 = r.val,
                      !.cpu[c].pc = IF ~r.ok THEN "l1_spin"
                                    ELSE IF locks.test = "nested" THEN "l2"
                                    ELSE "load",
                      !.cpu[c].spun = locks.cpu[c].spun \/ ~r.ok]
    /\ UNCHANGED locksFrame

\* arch_spin_lock lines 57-59: the inner loop ends when locked reads 0.
\* test10 takes test_lock2 only under test_lock1, so only its
\* compare-and-swap can send a CPU to wait on test_lock2.
SpinWait(c) ==
    /\ LockPc(c) \in {"l1_spin", "l2_spin"}
    /\ \E locked \in {IF LockPc(c) = "l1_spin" THEN locks.test_lock1
                      ELSE locks.test_lock2} :
          sync_fetch_and_add(locked, 0).old = 0
    /\ locks' = [locks EXCEPT
                   !.cpu[c].pc = IF LockPc(c) = "l1_spin" THEN "l1" ELSE "l2"]
    /\ UNCHANGED locksFrame

\* arch_spin_lock(&test_lock2)
SpinLock2(c) ==
    /\ LockPc(c) = "l2"
    /\ \E r \in {sync_bool_compare_and_swap(locks.test_lock2, 0, 1)} :
          locks' = [locks EXCEPT
                      !.test_lock2 = r.val,
                      !.cpu[c].pc = IF r.ok THEN "load" ELSE "l2_spin",
                      !.cpu[c].spun = locks.cpu[c].spun \/ ~r.ok]
    /\ UNCHANGED locksFrame

\* shared_counter++ on a volatile int: the load
CounterLoad(c) ==
    /\ LockPc(c) = "load"
    /\ locks' = [locks EXCEPT !.cpu[c].tmp = locks.shared_counter,
                              !.cpu[c].pc = "store"]
    /\ UNCHANGED locksFrame

\* shared_counter++: the store
CounterStore(c) ==
    /\ LockPc(c) = "store"
    /\ locks' = [locks EXCEPT
                   !.shared_counter = locks.cpu[c].tmp + 1,
                   !.cpu[c].pc = IF locks.test = "nested" THEN "u2" ELSE "u1"]
    /\ UNCHANGED locksFrame

\* arch_spin_unlock(&test_lock2): locked = 0
SpinUnlock2(c) ==
    /\ LockPc(c) = "u2"
    /\ locks' = [locks EXCEPT !.test_lock2 = 0, !.cpu[c].pc = "u1"]
    /\ UNCHANGED locksFrame

\* arch_spin_unlock(&test_lock1), then the next round of the loop
SpinUnlock1(c) ==
    /\ LockPc(c) = "u1"
    /\ locks' = [locks EXCEPT
                   !.test_lock1 = 0,
                   !.cpu[c].round = locks.cpu[c].round + 1,
                   !.cpu[c].pc = IF locks.cpu[c].round + 1 < LockRounds
                                 THEN "l1" ELSE "done"]
    /\ UNCHANGED locksFrame

LockInit ==
    /\ MonInit
    /\ memory_map[1].base = kernel_start
    /\ Len(memory_map) = 1

LockNext ==
    \/ StartLockTest
    \/ \E c \in LockCpus : SpinLock1(c)
    \/ \E c \in LockCpus : SpinWait(c)
    \/ \E c \in LockCpus : SpinLock2(c)
    \/ \E c \in LockCpus : CounterLoad(c)
    \/ \E c \in LockCpus : CounterStore(c)
    \/ \E c \in LockCpus : SpinUnlock2(c)
    \/ \E c \in LockCpus : SpinUnlock1(c)

LockSpec == LockInit /\ [][LockNext]_vars

\* the read-write lock test: rwlock_init, then every CPU takes the lock
\* for reading or for writing as it likes
StartRwTest ==
    /\ locks.test = "none"
    /\ locks' = [locks EXCEPT !.test = "rwlock", !.test_rwlock = 0]
    /\ UNCHANGED locksFrame

\* a CPU calls spin_read_lock or spin_write_lock
RwBegin(c) ==
    /\ locks.test = "rwlock"
    /\ LockPc(c) = "idle"
    /\ locks.cpu[c].round < LockRounds
    /\ \E m \in {"r_try", "w_try"} :
          locks' = [locks EXCEPT !.cpu[c].pc = m,
                                !.cpu[c].round = locks.cpu[c].round + 1]
    /\ UNCHANGED locksFrame

\* arch_spin_read_lock line 163: __sync_fetch_and_add(&counter, 1) < 0
ReadTry(c) ==
    /\ LockPc(c) = "r_try"
    /\ \E r \in {sync_fetch_and_add(locks.test_rwlock, 1)} :
          locks' = [locks EXCEPT
                      !.test_rwlock = r.val,
                      !.cpu[c].pc = IF r.old < 0 THEN "r_back" ELSE "r_held",
                      !.cpu[c].spun = locks.cpu[c].spun \/ r.old < 0]
    /\ UNCHANGED locksFrame

\* arch_spin_read_lock line 165: the reader takes its increment back
ReadBackOff(c) ==
    /\ LockPc(c) = "r_back"
    /\ locks' = [locks EXCEPT
                   !.test_rwlock = sync_fetch_and_add(locks.test_rwlock, -1).val,
                   !.cpu[c].pc = "r_spin"]
    /\ UNCHANGED locksFrame

\* arch_spin_read_lock lines 166-168: while (counter < 0) pause
ReadSpin(c) ==
    /\ LockPc(c) = "r_spin"
    /\ ~(locks.test_rwlock < 0)
    /\ locks' = [locks EXCEPT !.cpu[c].pc = "r_try"]
    /\ UNCHANGED locksFrame

\* arch_spin_read_unlock
ReadUnlock(c) ==
    /\ LockPc(c) = "r_held"
    /\ locks' = [locks EXCEPT
                   !.test_rwlock = sync_fetch_and_add(locks.test_rwlock, -1).val,
                   !.cpu[c].pc = "idle"]
    /\ UNCHANGED locksFrame

\* arch_spin_write_lock line 190: __sync_fetch_and_add(&counter, -1) != 0
WriteTry(c) ==
    /\ LockPc(c) = "w_try"
    /\ \E r \in {sync_fetch_and_add(locks.test_rwlock, -1)} :
          locks' = [locks EXCEPT
                      !.test_rwlock = r.val,
                      !.cpu[c].pc = IF r.old # 0 THEN "w_back" ELSE "w_held",
                      !.cpu[c].spun = locks.cpu[c].spun \/ r.old # 0]
    /\ UNCHANGED locksFrame

\* arch_spin_write_lock line 192: the writer takes its decrement back
WriteBackOff(c) ==
    /\ LockPc(c) = "w_back"
    /\ locks' = [locks EXCEPT
                   !.test_rwlock = sync_fetch_and_add(locks.test_rwlock, 1).val,
                   !.cpu[c].pc = "w_spin"]
    /\ UNCHANGED locksFrame

\* arch_spin_write_lock lines 193-195: while (counter != 0) pause
WriteSpin(c) ==
    /\ LockPc(c) = "w_spin"
    /\ ~(locks.test_rwlock # 0)
    /\ locks' = [locks EXCEPT !.cpu[c].pc = "w_try"]
    /\ UNCHANGED locksFrame

\* arch_spin_write_unlock
WriteUnlock(c) ==
    /\ LockPc(c) = "w_held"
    /\ locks' = [locks EXCEPT
                   !.test_rwlock = sync_fetch_and_add(locks.test_rwlock, 1).val,
                   !.cpu[c].pc = "idle"]
    /\ UNCHANGED locksFrame

RwNext ==
    \/ StartRwTest
    \/ \E c \in LockCpus : RwBegin(c)
    \/ \E c \in LockCpus : ReadTry(c)
    \/ \E c \in LockCpus : ReadBackOff(c)
    \/ \E c \in LockCpus : ReadSpin(c)
    \/ \E c \in LockCpus : ReadUnlock(c)
    \/ \E c \in LockCpus : WriteTry(c)
    \/ \E c \in LockCpus : WriteBackOff(c)
    \/ \E c \in LockCpus : WriteSpin(c)
    \/ \E c \in LockCpus : WriteUnlock(c)

RwSpec == LockInit /\ [][RwNext]_vars

\* ---------------------------------------------------------------------
\* The SMP test harness of src/tests/spinlock/spinlock_test.c: phases,
\* the barrier, and the flag hand-shake of test8_rwlock_readers
\* ---------------------------------------------------------------------

harnessFrame == <<pmm_state, pmmHist, monVars, smp, fault, locks, mbi>>

\* test_wait_phase, lines 147-155: one evaluation of the loop condition,
\* and the value returned when the loop is left
test_wait_phase(test_phase, k, timeout) ==
    [ spin |-> test_phase # k /\ timeout > 0,
      ret |-> IF timeout = 0 THEN -1 ELSE 0 ]

\* test_barrier_wait, lines 101-112, after the fetch-and-add
test_barrier_wait(test_barrier, expected, timeout) ==
    [ spin |-> test_barrier < expected /\ timeout > 0,
      ret |-> IF timeout = 0 THEN -1 ELSE 0 ]

\* run_spinlock_tests: test_set_phase(1), the BSP enters test 6
BspSetPhase1 ==
    /\ harness.bsp.pc = "idle"
    /\ harness' = [harness EXCEPT !.test_phase = 1, !.bsp.pc = "t6_init"]
    /\ UNCHANGED harnessFrame

\* test6_lock_contention lines 437-449 on the BSP: test_barrier_reset,
\* shared_counter and test_counter[] cleared
BspTest6Init ==
    /\ harness.bsp.pc = "t6_init"
    /\ harness' = [harness EXCEPT
                     !.test_barrier = 0,
                     !.shared_counter = 0,
                     !.test_counter = [c \in 0..(HarnessCpus - 1) |-> 0],
                     !.bsp.pc = "bar1"]
    /\ UNCHANGED harnessFrame

\* test_barrier_wait line 96: __sync_fetch_and_add(&test_barrier, 1)
BspBarrierArrive ==
    /\ harness.bsp.pc \in {"bar1", "bar2"}
    /\ harness' = [harness EXCEPT
                     !.test_barrier = harness.test_barrier + 1,
                     !.bsp.timeout = BARRIER_TIMEOUT,
                     !.bsp.polls = 0,
                     !.bsp.pc = IF harness.bsp.pc = "bar1"
                                THEN "poll1" ELSE "poll2"]
    /\ UNCHANGED harnessFrame

\* test_barrier_wait lines 102-112: one turn of the wait loop; test 6
\* drops the value returned
BspBarrierPoll ==
    /\ harness.bsp.pc \in {"poll1", "poll2"}
    /\ \E r \in {test_barrier_wait(harness.test_barrier, HarnessCpus,
                                     harness.bsp.timeout)} :
          harness' =
              IF r.spin
              THEN [harness EXCEPT !.bsp.timeout = harness.bsp.timeout - 1,
                                   !.bsp.polls = harness.bsp.polls + 1]
              ELSE [harness EXCEPT
                      !.bsp.bar_ret = IF r.ret < 0 THEN -1
                                      ELSE harness.bsp.bar_ret,
                      !.bsp.pc = IF harness.bsp.pc = "poll1"
                                 THEN "inc" ELSE "verdict"]
    /\ UNCHANGED harnessFrame

\* test 6 phase 2 on the BSP: the locked increments and test_counter[0]
BspIncrement ==
    /\ harness.bsp.pc = "inc"
    /\ harness' = [harness EXCEPT
                     !.shared_counter = harness.shared_counter + 1,
                     !.test_counter[0] = 1,
                     !.bsp.pc = "bar2"]
    /\ UNCHANGED harnessFrame

\* test 6 lines 466-492: barrier reset, shared_counter against the sum
\* of test_counter[]; run_spinlock_tests counts a failure on -1
BspVerdict ==
    /\ harness.bsp.pc = "verdict"
    /\ harness' = [harness EXCEPT
                     !.test_barrier = 0,
                     !.failures =
                         IF harness.shared_counter =
                                harness.test_counter[0] + harness.test_counter[1]
                         THEN harness.failures
                         ELSE harness.failures + 1,
                     !.bsp.pc = "set2"]
    /\ UNCHANGED harnessFrame

\* run_spinlock_tests: test_set_phase(2), test_set_phase(3); the BSP then
\* enters test8_rwlock_readers
BspSetPhase ==
    /\ harness.bsp.pc \in {"set2", "set3"}
    /\ harness' = [harness EXCEPT
                     !.test_phase = IF harness.bsp.pc = "set2" THEN 2 ELSE 3,
                     !.bsp.polls = 0,
                     !.bsp.pc = IF harness.bsp.pc = "set2"
                                THEN "set3" ELSE "t8_wait"]
    /\ UNCHANGED harnessFrame

\* test8_rwlock_readers lines 606-616 on the BSP: while (!test8_ready),
\* then the initialisation and test8_ready = 2
BspTest8Wait ==
    /\ harness.bsp.pc = "t8_wait"
    /\ IF harness.test8_ready = 0
       THEN /\ harness.bsp.polls < MaxPolls
            /\ harness' = [harness EXCEPT
                             !.bsp.polls = harness.bsp.polls + 1]
       ELSE harness' = [harness EXCEPT !.test8_ready = 2,
                                       !.shared_counter = 0,
                                       !.bsp.pc = "done"]
    /\ UNCHANGED harnessFrame

\* the AP enters spinlock_test_ap_entry: test_wait_phase(1)
ApEnter ==
    /\ harness.ap.pc = "absent"
    /\ harness' = [harness EXCEPT
                     !.ap.pc = "wait_phase", !.ap.phase = 1,
                     !.ap.timeout = BARRIER_TIMEOUT, !.ap.polls = 0]
    /\ UNCHANGED harnessFrame

\* test_wait_phase on the AP: one turn of the loop. A timeout of
\* test_wait_phase(1) ends the AP's part; later results are dropped.
ApPollPhase ==
    /\ harness.ap.pc = "wait_phase"
    /\ \E r \in {test_wait_phase(harness.test_phase, harness.ap.phase,
                                   harness.ap.timeout)} :
          harness' =
              IF r.spin
              THEN [harness EXCEPT !.ap.timeout = harness.ap.timeout - 1,
                                   !.ap.polls = harness.ap.polls + 1]
              ELSE IF harness.ap.phase = 1
              THEN [harness EXCEPT
                      !.ap.ret = r.ret,
                      !.ap.pc = IF r.ret < 0 THEN "gone" ELSE "bar1"]
              ELSE IF harness.ap.phase = 2
              THEN [harness EXCEPT
                      !.ap.ret = r.ret, !.ap.phase = 3,
                      !.ap.timeout = BARRIER_TIMEOUT, !.ap.polls = 0]
              ELSE [harness EXCEPT !.ap.ret = r.ret, !.ap.pc = "t8_flag"]
    /\ UNCHANGED harnessFrame

\* test_barrier_wait on the AP: the fetch-and-add
ApBarrierArrive ==
    /\ harness.ap.pc \in {"bar1", "bar2"}
    /\ harness' = [harness EXCEPT
                     !.test_barrier = harness.test_barrier + 1,
                     !.ap.timeout = BARRIER_TIMEOUT,
                     !.ap.polls = 0,
                     !.ap.pc = IF harness.ap.pc = "bar1"
                               THEN "poll1" ELSE "poll2"]
    /\ UNCHANGED harnessFrame

\* test_barrier_wait on the AP: one turn of the wait loop; after the
\* second barrier of test 6 the AP calls test_wait_phase(2)
ApBarrierPoll ==
    /\ harness.ap.pc \in {"poll1", "poll2"}
    /\ \E r \in {test_barrier_wait(harness.test_barrier, HarnessCpus,
                                     harness.ap.timeout)} :
          harness' =
              IF r.spin
              THEN [harness EXCEPT !.ap.timeout = harness.ap.timeout - 1,
                                   !.ap.polls = harness.ap.polls + 1]
              ELSE IF harness.ap.pc = "poll1"
              THEN [harness EXCEPT !.ap.pc = "inc"]
              ELSE [harness EXCEPT
                      !.ap.pc = "wait_phase", !.ap.phase = 2,
                      !.ap.timeout = BARRIER_TIMEOUT, !.ap.polls = 0]
    /\ UNCHANGED harnessFrame

\* test 6 phase 2 on the AP
ApIncrement ==
    /\ harness.ap.pc = "inc"
    /\ harness' = [harness EXCEPT
                     !.shared_counter = harness.shared_counter + 1,
                     !.test_counter[1] = 1,
                     !.ap.pc = "bar2"]
    /\ UNCHANGED harnessFrame

\* test8_rwlock_readers line 619 on the AP: test8_ready = 1
ApTest8Flag ==
    /\ harness.ap.pc = "t8_flag"
    /\ harness' = [harness EXCEPT !.test8_ready = 1, !.ap.polls = 0,
                                  !.ap.pc = "t8_wait"]
    /\ UNCHANGED harnessFrame

\* test8_rwlock_readers lines 623-625 on the AP: while (test8_ready != 2)
ApTest8Wait ==
    /\ harness.ap.pc = "t8_wait"
    /\ IF harness.test8_ready # 2
       THEN /\ harness.ap.polls < MaxPolls
            /\ harness' = [harness EXCEPT !.ap.polls = harness.ap.polls + 1]
       ELSE harness' = [harness EXCEPT !.ap.pc = "done"]
    /\ UNCHANGED harnessFrame

HarnessNext ==
    \/ BspSetPhase1
    \/ BspTest6Init
    \/ BspBarrierArrive
    \/ BspBarrierPoll
    \/ BspIncrement
    \/ BspVerdict
    \/ BspSetPhase
    \/ BspTest8Wait
    \/ ApEnter
    \/ ApPollPhase
    \/ ApBarrierArrive
    \/ ApBarrierPoll
    \/ ApIncrement
    \/ ApTest8Flag
    \/ ApTest8Wait

HarnessSpec == LockInit /\ [][HarnessNext]_vars

\* the frames of the block of 2^order pages at addr
BlockFrames(addr, order) ==
    {addr + i * PAGE_SIZE : i \in 0..(Pow2(order) - 1)}

\* the last monitor call has returned to the outer kernel
Returned == pc = "run" /\ mon_ret.call # -1

\* C11: when monitor_pmm_alloc(order) has returned a block, each of the
\* 2^order frames of the block has PCD type OK_NORMAL.
C11_AllocStampsOk ==
    (Returned /\ mon_ret.wrap = "pmm_alloc" /\ mon_ret.result # 0)
        => \A a \in BlockFrames(mon_ret.result, mon_ret.arg1) :
               pcd_get_type(pcd_state, a) = PCD_TYPE_OK_NORMAL

\* C12: when monitor_pmm_free(addr, order) has returned, for a block that
\* monitor_pmm_alloc(order) had handed out, no frame of the block still
\* has PCD type OK_NORMAL.
C12_FreeRestoresType ==
    (Returned /\ mon_ret.wrap = "pmm_free" /\ mon_ret.own)
        => \A a \in BlockFrames(mon_ret.arg1, mon_ret.arg2) :
               pcd_get_type(pcd_state, a) # PCD_TYPE_OK_NORMAL

\* the tables the monitor allocated: those of monitor_init and of the
\* read-only aliases
MonitorAllocatedTables ==
    (DOMAIN pt_mem)
        \ {boot_pml4, boot_pdpt, boot_pd, boot_pd_apic, boot_pt_apic}

\* C13: every frame of a block that a successful AllocPageTable call
\* returns has PCD type NK_PGTABLE when the call returns, and so has every
\* table the monitor allocated for itself.
C13_TablesStamped ==
    /\ (mon_ret.call = MONITOR_CALL_ALLOC_PGTABLE /\ mon_ret.result # 0)
           => \A a \in BlockFrames(mon_ret.result, mon_ret.arg1) :
                  pcd_get_type(pcd_state, a) = PCD_TYPE_NK_PGTABLE
    /\ MonitorReady
           => \A t \in MonitorAllocatedTables :
                  pcd_get_type(pcd_state, t) = PCD_TYPE_NK_PGTABLE

\* C14: when a MapPage(phys, virt, flags) call made after monitor_init has
\* returned error = 0, the unprivileged view translates virt to phys, and
\* not writably when the type of phys is NK_NORMAL or NK_PGTABLE.
C14_MapInstalls ==
    (/\ MonitorReady
     /\ Returned
     /\ mon_ret.phase = "outer"
     /\ mon_ret.call = MONITOR_CALL_MAP_PAGE
     /\ mon_ret.error = 0)
        => /\ OuterWalk(mon_ret.arg2).present
           /\ OuterWalk(mon_ret.arg2).phys = AlignDown(mon_ret.arg1)
           /\ mon_ret.type \in {PCD_TYPE_NK_NORMAL, PCD_TYPE_NK_PGTABLE}
                  => ~OuterWalk(mon_ret.arg2).writable

\* t is one of the four page types
ValidType(t) == t \in PCD_TYPE_MIN..PCD_TYPE_MAX

\* C15: a GetPageType(p) call that follows a SetPageType(p, t) call, with
\* p a managed address, t a valid type and nothing in between, returns
\* result = t.
C15_SetGetRoundTrip ==
    [][(/\ mon_ret.call = MONITOR_CALL_SET_PAGE_TYPE
        /\ mon_ret.wrap = "none"
        /\ mon_ret.phase = phase
        /\ pcd_state.initialized
        /\ pcd_is_managed(pcd_state, AlignDown(mon_ret.arg1))
        /\ ValidType(mon_ret.arg2)
        /\ mon_ret'.call = MONITOR_CALL_GET_PAGE_TYPE
        /\ AlignDown(mon_ret'.arg1) = AlignDown(mon_ret.arg1))
           => mon_ret'.result = mon_ret.arg2]_vars

\* C15 witness: GetPageType reports NK_PGTABLE for the outer kernel's own
\* stacks, which is what the call before it, SetPageType, stored there
C15_Witness ==
    /\ mon_ret.call = MONITOR_CALL_GET_PAGE_TYPE
    /\ mon_ret.arg1 = ok_cpu_stacks
    /\ mon_ret.result = PCD_TYPE_NK_PGTABLE
    /\ mon_ret.via = "trampoline"
    /\ ncalls = 2

\* the last call is one the monitor did not carry out: a SetPageType that
\* names an unmanaged address or an invalid type, a writable mapping of a
\* monitor page, or an unknown operation
NotCarriedOut ==
    \/ /\ mon_ret.call = MONITOR_CALL_SET_PAGE_TYPE
       /\ \/ ~pcd_state.initialized
          \/ ~pcd_is_managed(pcd_state, AlignDown(mon_ret.arg1))
          \/ ~ValidType(mon_ret.arg2)
    \/ /\ mon_ret.call = MONITOR_CALL_MAP_PAGE
       /\ HasFlag(mon_ret.arg3, X86_PTE_WRITABLE)
       /\ mon_ret.type \in {PCD_TYPE_NK_NORMAL, PCD_TYPE_NK_PGTABLE}
    \/ mon_ret.call = BadCall

\* C16: a monitor call that the monitor does not carry out returns
\* error = -1.
C16_RejectionIsError == NotCarriedOut => mon_ret.error = -1

\* pcd_set_type(a, type) for each page address a of [addr, end)
RECURSIVE SetLoop(_, _, _, _)
SetLoop(p, addr, end, type) ==
    IF addr >= end THEN p
    ELSE ApplyTo(LAMBDA q : SetLoop(q, addr + PAGE_SIZE, end, type),
                 pcd_set_type(p, addr, type))

\* C17: pcd_mark_region(base, size, type) leaves the PCD array in the state
\* that pcd_set_type(a, type), called for each page address a of the
\* window, produces; no entry changes when type is not a valid type.
C17_MarkIsSetLoop ==
    [][(nops' # nops /\ last'.op = "mark")
           => pcd_state' = SetLoop(pcd_state, AlignUp(last'.a),
                                   AlignDown(last'.a + last'.b),
                                   last'.ret)]_vars

\* the address lies in the range the PCD array covers
InPcdRange(a) ==
    /\ pcd_state.initialized
    /\ a \div PAGE_SIZE >= pcd_state.base_page
    /\ a \div PAGE_SIZE < pcd_state.base_page + pcd_state.max_pages

\* C18: pcd_get_type(addr) returns the stored type of the page when addr
\* is PCD-managed, and NK_NORMAL when the PCD is not initialised or addr is
\* outside the managed range (so never OK_NORMAL for an unmanaged address).
C18_GetTypeTotal ==
    [][(nops' # nops /\ last'.op = "get")
           => IF InPcdRange(last'.a)
              THEN last'.ret
                       = pcd_state.type[(last'.a \div PAGE_SIZE)
                                            - pcd_state.base_page]
              ELSE last'.ret = PCD_TYPE_NK_NORMAL]_vars

\* C18 witness: with the PCD initialised, the type of the frame just above
\* the managed range was asked for after the last managed frame had been
\* given to the outer kernel, and the answer was NK_NORMAL
C18_Witness ==
    /\ last.op = "get"
    /\ pcd_state.initialized
    /\ last.a \div PAGE_SIZE = pcd_state.max_pages
    /\ pcd_state.type[pcd_state.max_pages - 1] = PCD_TYPE_OK_NORMAL
    /\ last.ret = PCD_TYPE_NK_NORMAL

\* C19: the state of every CPU slot only moves forward through
\* Offline -> Booting -> Online -> Ready: no step of smp_start_all_aps or of
\* ap_start, in any interleaving and with any IPI outcome, lowers it
C19_ForwardOnly ==
    [][\A i \in CpuSlots : smp'.cpu_info[i] >= smp.cpu_info[i]]_vars

\* C20: the BSP starts the APs one at a time: when it begins the
\* INIT/STARTUP sequence for a slot after the first, the slot before it has
\* published Ready, or the wait for it has expired. The only bounded waits
\* of the bring-up are the delivery polls of ap_startup, so an ap_startup
\* that returned -1 counts as the wait having expired.
C20_OneAtATime ==
    [][(smp.bsp.pc = "ipi" /\ smp'.bsp.pc # "ipi" /\ smp.bsp.i > 1)
        => \/ smp.cpu_info[smp.bsp.i - 1] = CPU_READY
           \/ smp.bsp.ret < 0]_vars

\* the AP started for slot k has done its fetch-and-add
TookIndex(k) == smp.ap[k].pc \notin {"reset", "wait", "index"}

\* the AP started for slot k went on past the range check of ap_start
Proceeded(k) ==
    \/ smp.ap[k].pc \in {"current", "online", "ready", "load", "store"}
    \/ smp.ap[k].pc = "halted" /\ smp.ap[k].my_index \in ApSlots

\* the AP started for slot k has written CPU_READY
Published(k) ==
    \/ smp.ap[k].pc \in {"load", "store"}
    \/ smp.ap[k].pc = "halted" /\ smp.ap[k].my_index \in ApSlots

\* smp_start_all_aps is past its loop and no AP has a step left
BringUpOver ==
    /\ smp.bsp.pc = "done"
    /\ \A k \in ApSlots : smp.ap[k].pc \in {"reset", "halted"}

\* C21: when the bring-up is over, every AP slot that did not reach Ready
\* (IPI timeout, or no response after the IPIs were delivered) is Offline
C21_UnreadyEndsOffline ==
    BringUpOver =>
        \A i \in ApSlots : smp.cpu_info[i] \in {CPU_READY, CPU_OFFLINE}

\* C22: an AP that has published Ready has before that seen bsp_ready,
\* taken its index, switched to its own stack, loaded the OuterView root
\* into CR3, set CR0.WP and run the invariant verifier
C22_ReadyAfterSetup ==
    \A k \in ApSlots :
        Published(k) =>
            /\ smp.bsp_init_complete # 0
            /\ smp.ap[k].my_index \in ApSlots
            /\ smp.ap[k].stack = smp.ap[k].my_index
            /\ smp.ap[k].cr3 = monitor_get_unpriv_cr3(mon_state)
            /\ smp.ap[k].wp
            /\ smp.ap[k].verified

\* C23: every AP takes its index once, by the atomic fetch-and-add: the
\* counter is 1 + the number of APs that took one, no two APs hold the
\* same index, none holds 0, none goes on with an index >= SMP_MAX_CPUS
C23_IndexUnique ==
    /\ smp.bsp.pc # "boot" =>
           smp.next_cpu_id = 1 + Cardinality({k \in ApSlots : TookIndex(k)})
    /\ \A k \in ApSlots : TookIndex(k) => smp.ap[k].my_index # 0
    /\ \A k \in ApSlots :
           Proceeded(k) => smp.ap[k].my_index \in 1..(SMP_MAX_CPUS - 1)
    /\ \A k1, k2 \in ApSlots :
           (k1 # k2 /\ TookIndex(k1) /\ TookIndex(k2))
               => smp.ap[k1].my_index # smp.ap[k2].my_index

C23_Witness ==
    /\ \A k \in ApSlots : TookIndex(k)
    /\ \E k \in ApSlots : smp.ap[k].my_index # k

\* C24: for every slot the BSP has tried, the IPIs sent are a prefix of
\* INIT-assert, INIT-deassert, STARTUP, STARTUP, each sent only after the
\* one before it was confirmed; the first timeout ends the sequence with
\* -1 and nothing more is sent; past the loop every AP slot was tried
C24_IpiSequence ==
    /\ \A i \in ApSlots :
           smp.ipi[i].tried =>
               /\ Len(smp.ipi[i].sent) \in 1..Len(IpiSeq)
               /\ smp.ipi[i].sent = SubSeq(IpiSeq, 1, Len(smp.ipi[i].sent))
               /\ smp.ipi[i].acked >= Len(smp.ipi[i].sent) - 1
               /\ (smp.ipi[i].ret = 0) = (smp.ipi[i].acked = Len(IpiSeq))
               /\ smp.ipi[i].ret \in {0, -1}
               /\ smp.ipi[i].ret = -1 =>
                      Len(smp.ipi[i].sent) = smp.ipi[i].acked + 1
    /\ smp.bsp.pc \in {"flag", "done"} =>
           \A i \in ApSlots : smp.ipi[i].tried

C24_Witness ==
    /\ smp.bsp.pc = "done"
    /\ smp.ipi[1].ret = -1
    /\ smp.ipi[1].acked = 1
    /\ smp.ipi[2].ret = 0
    /\ smp.ipi[3].tried

\* C25: once a CPU has taken a page fault, whatever the error code, it
\* never runs the faulting code again and the handler changes no mapping:
\* the handler goes to system_shutdown, which powers the machine off or
\* stays in its hlt loop
C25_FaultIsFatal ==
    [][/\ fault.pc = "handler" => fault'.pc \in {"handler", "shutdown"}
       /\ fault.pc \in {"shutdown", "vbox", "hlt", "off"} =>
              fault'.pc \in {"shutdown", "vbox", "hlt", "off"}
       /\ fault.pc = "off" => fault'.pc = "off"
       /\ fault.pc # "run" => pt_mem' = pt_mem /\ cr3' = cr3]_vars

C25_Witness ==
    /\ fault.pc = "hlt"
    /\ fault.error_code = PF_PRESENT + PF_WRITE
    /\ fault.wakes = MaxWakes
    /\ fault.ports = <<SHUTDOWN_PORT_QEMU, SHUTDOWN_PORT_VBOX>>

\* C26: while a CPU holds the write lock of test_rwlock, no other CPU
\* holds it for reading or for writing, whatever attempts are in flight
C26_WriterExcludes ==
    \A c, d \in LockCpus :
        (c # d /\ LockPc(c) = "w_held") => LockPc(d) \notin {"w_held", "r_held"}

\* the CPUs that hold test_lock1, and those that hold test_lock2
Holders1 ==
    {c \in LockCpus : LockPc(c) \in {"l2", "l2_spin", "load", "store", "u2", "u1"}}
Holders2 ==
    {c \in LockCpus : locks.test = "nested" /\ LockPc(c) \in {"load", "store", "u2"}}

\* C27: at most one CPU holds a spin lock at any time, and when every one
\* of the N CPUs has done its M locked increments the shared counter is
\* N * M, with one lock and with two locks nested in the same order
C27_NoLostUpdate ==
    /\ Cardinality(Holders1) <= 1
    /\ Cardinality(Holders2) <= 1
    /\ (\A c \in LockCpus : LockPc(c) = "done") =>
           locks.shared_counter = NumLockCpus * LockRounds

C27_Witness ==
    /\ locks.test = "nested"
    /\ \A c \in LockCpus : LockPc(c) = "done" /\ locks.cpu[c].spun
    /\ locks.shared_counter = NumLockCpus * LockRounds

\* C28: an AP in test_wait_phase(k) is released at its next look at the
\* phase counter whenever the counter is at k or beyond (and its timeout
\* has not run out): it keeps waiting only while the phase is below k
C28_ReleasedAtOrPast ==
    [][(/\ harness.ap.pc = "wait_phase"
        /\ harness.test_phase >= harness.ap.phase
        /\ harness.ap.timeout > 0
        /\ harness'.ap # harness.ap)
        => (harness'.ap.pc # "wait_phase"
            \/ harness'.ap.phase # harness.ap.phase)]_vars

\* C29: every cross-CPU wait of the harness is bounded, and a wait that
\* ran out is reported: no wait loop turns more than BARRIER_TIMEOUT
\* times, and test 6 counts as failed when one of its barriers timed out
C29_WaitsBounded ==
    /\ harness.bsp.polls <= BARRIER_TIMEOUT
    /\ harness.ap.polls <= BARRIER_TIMEOUT
    /\ (harness.bsp.pc \in {"set2", "set3", "t8_wait", "done"}
           /\ harness.bsp.bar_ret = -1) => harness.failures > 0

(***************************************************************************)
(* Boot-time memory discovery: pmm_init clears the allocator and calls     *)
(* multiboot2_parse, which walks the tags of the boot information and      *)
(* hands regions to pmm_add_region.                                        *)
(***************************************************************************)
\* multiboot2.h:10-16
MULTIBOOT_TAG_END == 0
MULTIBOOT_TAG_CMDLINE == 1
MULTIBOOT_TAG_BASIC_MEMINFO == 4
MULTIBOOT_TAG_MMAP == 6
\* multiboot2.h:33-34
MULTIBOOT_MEMORY_AVAILABLE == 1
MULTIBOOT_MEMORY_RESERVED == 2

\* tags of one boot information, the END tag not counted
MaxTags == 2
\* entries of one memory-map tag
MaxEntries == 2

\* 0x100000 of multiboot2.c:144, the address the kernel is linked at
UpperMemBase == kernel_start
\* 0x200000 and 128 MiB of multiboot2.c:170, in the model's scale
FallbackBase == RegionBytes
FallbackEnd == MonMemBytes

mbiFrame == <<pmmHist, monVars, smp, fault, locks, harness>>

\* memory-map entries the boot loader may report: page-aligned and not
\* (one at the base of the upper memory), shorter than the padding to the
\* next page boundary and longer
MmapEntries ==
    [ base_addr : {0, PAGE_SIZE + HalfPage, UpperMemBase, 8 * PAGE_SIZE},
      length : {HalfPage \div 2, 2 * PAGE_SIZE + HalfPage},
      type : {MULTIBOOT_MEMORY_AVAILABLE, MULTIBOOT_MEMORY_RESERVED} ]

\* a memory map lists disjoint ranges in ascending order
MmapLists ==
    {<<a>> : a \in MmapEntries} \cup
    (IF MaxEntries < 2 THEN {}
     ELSE {<<p[1], p[2]>> :
              p \in {q \in MmapEntries \X MmapEntries :
                        q[1].base_addr + q[1].length <= q[2].base_addr}})

Tag(type, size, entries, mem_upper) ==
    [type |-> type, size |-> size, entries |-> entries,
     mem_upper |-> mem_upper]

\* the tags of a boot information: memory maps, basic memory information
\* with mem_upper in KiB, a command line, and a tag whose size is below 8
MbiTags ==
    {Tag(MULTIBOOT_TAG_MMAP, 16 + 24 * Len(es), es, 0) : es \in MmapLists}
    \cup {Tag(MULTIBOOT_TAG_BASIC_MEMINFO, 16, << >>, k) : k \in {0, 8, 10}}
    \cup {Tag(MULTIBOOT_TAG_CMDLINE, 16, << >>, 0),
          Tag(MULTIBOOT_TAG_CMDLINE, 4, << >>, 0)}

BootInfos == UNION {[1..n -> MbiTags] : n \in 0..MaxTags}

\* one pmm_add_region call of the parser, as recorded in mbi.fed
Fed(base, size, from, type) ==
    [base |-> base, size |-> size, from |-> from, type |-> type]

\* parse_memory_map, line 56
aligned_base(entry) == AlignUp(entry.base_addr) % WordSize

\* parse_memory_map, lines 57-60: unsigned, so a length below the padding
\* wraps
aligned_length(entry) ==
    AlignDown((entry.length - (aligned_base(entry) - entry.base_addr))
                  % WordSize)

\* a parse_memory_map that feeds every entry, whatever its type
parse_memory_map_entry_AnyType(r, entry) ==
    IF aligned_length(entry) >= PAGE_SIZE
    THEN [pmm |-> pmm_add_region(r.pmm, aligned_base(entry),
                                 aligned_length(entry)),
          fed |-> Append(r.fed, Fed(aligned_base(entry),
                                    aligned_length(entry), "mmap",
                                    entry.type))]
    ELSE r

\* parse_memory_map, lines 50-74: one turn of the loop over the entries;
\* r is [pmm, fed]
parse_memory_map_entry(r, entry) ==
    IF entry.type = MULTIBOOT_MEMORY_AVAILABLE
       /\ aligned_length(entry) >= PAGE_SIZE
    THEN [pmm |-> pmm_add_region(r.pmm, aligned_base(entry),
                                 aligned_length(entry)),
          fed |-> Append(r.fed, Fed(aligned_base(entry),
                                    aligned_length(entry), "mmap",
                                    entry.type))]
    ELSE r

\* parse_memory_map
RECURSIVE parse_memory_map(_, _)
parse_memory_map(r, entries) ==
    IF entries = << >> THEN r
    ELSE ApplyTo(LAMBDA r1 : parse_memory_map(r1, Tail(entries)),
                 parse_memory_map_entry(r, Head(entries)))

\* multiboot2_parse, lines 113-120: the tag walk stops at this tag
TagStops(tag) ==
    \/ tag.type = MULTIBOOT_TAG_END
    \/ tag.size < 8
    \/ tag.size > 4096

\* the tag multiboot2_parse looks at; past the last one stands the END tag
CurrentTag ==
    IF mbi.pos <= Len(mbi.info) THEN mbi.info[mbi.pos]
    ELSE Tag(MULTIBOOT_TAG_END, 8, << >>, 0)

\* pmm_init, lines 207-225: the state is cleared and multiboot2_parse is
\* handed the boot information
MbPmmInit ==
    /\ mbi.pc = "boot"
    /\ \E info \in BootInfos :
          mbi' = [MbiBoot EXCEPT !.pc = "tags", !.info = info, !.pos = 1]
    /\ pmm_state' = [PmmEmpty EXCEPT !.pool_size = MonBlockDesc]
    /\ UNCHANGED mbiFrame

\* multiboot2_parse, lines 123-127: case MULTIBOOT_TAG_MMAP
MbTagMmap ==
    /\ mbi.pc = "tags"
    /\ ~TagStops(CurrentTag)
    /\ CurrentTag.type = MULTIBOOT_TAG_MMAP
    /\ \E r \in {parse_memory_map([pmm |-> pmm_state, fed |-> mbi.fed],
                                  CurrentTag.entries)} :
          /\ pmm_state' = r.pmm
          /\ mbi' = [mbi EXCEPT !.fed = r.fed, !.found_memory = TRUE,
                                !.pos = @ + 1]
    /\ UNCHANGED mbiFrame

\* multiboot2_parse, lines 129-148: case MULTIBOOT_TAG_BASIC_MEMINFO
MbTagMeminfo ==
    /\ mbi.pc = "tags"
    /\ ~TagStops(CurrentTag)
    /\ CurrentTag.type = MULTIBOOT_TAG_BASIC_MEMINFO
    /\ \E upper_mem \in {CurrentTag.mem_upper * 1024} :
          IF upper_mem > 0
          THEN /\ pmm_state' = pmm_add_region(pmm_state, UpperMemBase,
                                              upper_mem)
               /\ mbi' = [mbi EXCEPT
                             !.fed = Append(@, Fed(UpperMemBase, upper_mem,
                                                   "meminfo", 0)),
                             !.found_memory = TRUE,
                             !.pos = @ + 1]
          ELSE /\ pmm_state' = pmm_state
               /\ mbi' = [mbi EXCEPT !.pos = @ + 1]
    /\ UNCHANGED mbiFrame

\* multiboot2_parse, lines 150-153: any other tag is skipped
MbTagOther ==
    /\ mbi.pc = "tags"
    /\ ~TagStops(CurrentTag)
    /\ CurrentTag.type \notin {MULTIBOOT_TAG_MMAP,
                               MULTIBOOT_TAG_BASIC_MEMINFO}
    /\ mbi' = [mbi EXCEPT !.pos = @ + 1]
    /\ UNCHANGED <<pmm_state, mbiFrame>>

\* multiboot2_parse: the walk ends at the END tag or at a tag of invalid
\* size; line 165 then looks at found_memory
MbTagsEnd ==
    /\ mbi.pc = "tags"
    /\ TagStops(CurrentTag)
    /\ mbi' = [mbi EXCEPT !.pc = IF mbi.found_memory THEN "done"
                                 ELSE "fallback"]
    /\ UNCHANGED <<pmm_state, mbiFrame>>

\* multiboot2_parse, lines 165-171: the default map
MbFallback ==
    /\ mbi.pc = "fallback"
    /\ pmm_state' = pmm_add_region(pmm_state, FallbackBase,
                                   FallbackEnd - FallbackBase)
    /\ mbi' = [mbi EXCEPT
                  !.fed = Append(@, Fed(FallbackBase,
                                        FallbackEnd - FallbackBase,
                                        "fallback", 0)),
                  !.pc = "done"]
    /\ UNCHANGED mbiFrame

MbNext ==
    \/ MbPmmInit
    \/ MbTagMmap
    \/ MbTagMeminfo
    \/ MbTagOther
    \/ MbTagsEnd
    \/ MbFallback

MbSpec == LockInit /\ [][MbNext]_vars

\* the page frames on the allocator's free lists
FreePagesOf(s) ==
    UNION {UNION {{b + i * PAGE_SIZE : i \in 0..(Pow2(o) - 1)} :
                     b \in FreeBlocksOf(s, o)} : o \in Orders}

\* the tags of the boot information of a given type
TagsOf(type) ==
    {mbi.info[i] : i \in {j \in 1..Len(mbi.info) : mbi.info[j].type = type}}

\* page p lies inside the range [base, base + length)
PageInside(p, base, length) == base <= p /\ p + PAGE_SIZE <= base + length

\* page p lies inside an AVAILABLE entry of a memory-map tag
InAvailableEntry(p) ==
    \E t \in TagsOf(MULTIBOOT_TAG_MMAP) : \E i \in 1..Len(t.entries) :
        /\ t.entries[i].type = MULTIBOOT_MEMORY_AVAILABLE
        /\ PageInside(p, t.entries[i].base_addr, t.entries[i].length)

\* page p lies inside the upper memory a basic-memory tag reports
InUpperMemory(p) ==
    \E t \in TagsOf(MULTIBOOT_TAG_BASIC_MEMINFO) :
        PageInside(p, UpperMemBase, t.mem_upper * 1024)

\* no entry of another type than AVAILABLE was handed to pmm_add_region
OnlyAvailableFed ==
    \A i \in 1..Len(mbi.fed) :
        mbi.fed[i].from = "mmap" =>
            mbi.fed[i].type = MULTIBOOT_MEMORY_AVAILABLE

\* C30 as stated: every page the boot-time parsing adds to the allocator
\* lies inside a memory-map entry of type AVAILABLE, or inside the fallback
\* region when the boot information holds neither memory tag; entries of
\* other types are never added
C30_OnlyAvailable ==
    /\ OnlyAvailableFed
    /\ \A p \in FreePagesOf(pmm_state) :
          \/ InAvailableEntry(p)
          \/ /\ TagsOf(MULTIBOOT_TAG_MMAP) = {}
             /\ TagsOf(MULTIBOOT_TAG_BASIC_MEMINFO) = {}
             /\ PageInside(p, FallbackBase, FallbackEnd - FallbackBase)

\* C30, amended: every page the boot-time parsing adds to the allocator
\* lies inside a memory-map entry of type AVAILABLE, or inside the upper
\* memory [1 MiB, 1 MiB + mem_upper KiB) of a basic-memory tag, or inside
\* the fallback region when the tag walk found no memory; entries of other
\* types are never added
C30_AvailableOrUpper ==
    /\ OnlyAvailableFed
    /\ \A p \in FreePagesOf(pmm_state) :
          \/ InAvailableEntry(p)
          \/ InUpperMemory(p)
          \/ /\ mbi.pc = "done"
             /\ ~mbi.found_memory
             /\ PageInside(p, FallbackBase, FallbackEnd - FallbackBase)

\* the walk is over a boot information with a basic-memory tag and a
\* memory map that has a RESERVED entry: pages of both tags were added
C30_Witness ==
    /\ mbi.pc = "done"
    /\ \E p \in FreePagesOf(pmm_state) : InUpperMemory(p) /\ ~InAvailableEntry(p)
    /\ \E p \in FreePagesOf(pmm_state) : InAvailableEntry(p) /\ ~InUpperMemory(p)
    /\ \E t \in TagsOf(MULTIBOOT_TAG_MMAP) : \E i \in 1..Len(t.entries) :
          /\ t.entries[i].type = MULTIBOOT_MEMORY_RESERVED
          /\ aligned_length(t.entries[i]) >= PAGE_SIZE

\* C31: pmm_alloc(k) takes the lowest-addressed free block of the smallest
\* non-empty order >= k, whatever the order in which the blocks came onto
\* the free list
C31_LowestFirst ==
    [][(last'.op = "alloc" /\ nops' = nops + 1 /\ last'.ret # 0)
        => \E o \in NonEmptyOrders(pmm_state, last'.b) :
              /\ \A y \in NonEmptyOrders(pmm_state, last'.b) : o <= y
              /\ \A b \in FreeBlocksOf(pmm_state, o) : last'.ret <= b]_vars

\* C32: after monitor_init every change of a PCD type is made while CR3
\* holds the root of the monitor's view; none is made while the
\* unprivileged view is active
C32_PcdWrittenInMonitorView ==
    [][(/\ phase = "outer"
        /\ mon_state.monitor_pml4_phys # 0
        /\ pcd_state'.type # pcd_state.type)
        => cr3' = mon_state.monitor_pml4_phys]_vars

\* the CPUs whose cpu_info state is CPU_READY
ReadyCpus == {i \in CpuSlots : smp.cpu_info[i] = CPU_READY}

\* C33: whenever no CPU is inside smp_mark_cpu_ready, the CPU-ready counter
\* equals the number of CPUs marked CPU_READY, whatever the interleaving of
\* the concurrent calls; no increment is lost
C33_ReadyCounterExact ==
    (\A k \in ApSlots : smp.ap[k].pc \notin {"load", "store"})
        => smp.ready_cpus = Cardinality(ReadyCpus)

\* smp_get_cpu_index, lines 68-70: the value of the global current_cpu_index
smp_get_cpu_index(s) == s.current_cpu_index

\* the APs that are past the store of line 257 of ap_start
ApsStarted ==
    {k \in ApSlots :
        smp.ap[k].pc \in {"online", "ready", "load", "store", "halted"}}

\* C34: smp_get_cpu_index() returns the index of the CPU that calls it: 0
\* on the BSP at all times, and the index it took on an AP that has
\* started, whatever the other CPUs have done
C34_IndexOfCaller ==
    /\ smp_get_cpu_index(smp) = 0
    /\ \A k \in ApsStarted : smp_get_cpu_index(smp) = smp.ap[k].my_index

\* the block descriptors on the free lists and on the allocated list, each
\* with the list (-1 the allocated list) and the position it is linked at
BlocksOf(s) ==
    UNION {{[list |-> o, pos |-> i, base |-> s.free_lists[o][i],
             order |-> o] : i \in 1..Len(s.free_lists[o])} :
           o \in 0..MAX_ORDER}
    \cup {[list |-> -1, pos |-> i, base |-> s.allocated_blocks[i].base_addr,
           order |-> s.allocated_blocks[i].order] :
          i \in 1..Len(s.allocated_blocks)}

\* two blocks share a page frame
BlocksOverlap(x, y) ==
    /\ x.base < y.base + BlockSize(y.order)
    /\ y.base < x.base + BlockSize(x.order)

\* C35: the blocks on the free lists and on the allocated list are pairwise
\* disjoint at all times, also when the boot information carries both a
\* basic-meminfo and a memory-map tag or regions that overlap are added
C35_BlocksDisjoint ==
    \A x, y \in BlocksOf(pmm_state) : x # y => ~BlocksOverlap(x, y)

\* C36: a matched pair, pmm_alloc(k) and the pmm_free of the block it
\* returned, consumes no block descriptor for good: after the pair the
\* number of descriptors taken from the pool is what it was before it, and
\* a further pmm_alloc(k) succeeds
C36_PairKeepsDescriptors ==
    [][(/\ last.op = "alloc"
        /\ last.ret # 0
        /\ last'.op = "free"
        /\ last'.a = last.ret
        /\ nops' = nops + 1)
        => /\ pmm_state'.block_count = block_count_before
           /\ pmm_alloc(pmm_state', last.b).ret # 0]_vars

\* C37: a pmm_alloc that succeeded can be told from one that failed: no
\* block the allocator has handed out has base address 0, the value
\* pmm_alloc returns on failure
C37_NoBlockAtZero ==
    \A i \in 1..Len(pmm_state.allocated_blocks) :
        pmm_state.allocated_blocks[i].base_addr # 0

\* the order of the block of the allocated list that holds the PCD array
ArrayOrders ==
    {pmm_state.allocated_blocks[i].order :
        i \in {j \in 1..Len(pmm_state.allocated_blocks) :
                 pmm_state.allocated_blocks[j].base_addr = pcd_state.pages}}

\* C38: pcd_init writes PCD entries only inside the block it allocated for
\* the array: when it succeeded, the block holds at least total_pages
\* entries of PcdEntrySize bytes (when it failed it wrote none)
C38_ArrayInsideBlock ==
    /\ pcd_state.initialized
          => \A o \in ArrayOrders :
                 pcd_state.max_pages * PcdEntrySize <= BlockSize(o)
    /\ ~pcd_state.initialized => pcd_state.type = PcdEmpty.type

\* the frames in use as page tables, as the PCD array, and as the monitor's
\* code and stacks
ProtectedFrames ==
    (DOMAIN pt_mem)
    \cup {AlignDown(pcd_state.pages)}
    \cup {kernel_text, nk_boot_stack_bottom, nk_trampoline_stack_bottom}

\* C39: whatever monitor calls were made (SetPageType, FreePhys followed by
\* AllocPhys or monitor_pmm_alloc, MapPage), no frame in use as a page
\* table, as the PCD array or as monitor code or stack has PCD type
\* OK_NORMAL, and a writable mapping of such a frame is turned down
C39_ProtectedFramesStay ==
    (MonitorReady /\ pcd_is_initialized(pcd_state))
        => \A f \in ProtectedFrames :
               /\ pcd_get_type(pcd_state, f) # PCD_TYPE_OK_NORMAL
               /\ monitor_map_page(Sys, f, NESTED_KERNEL_RO_BASE + RegionBytes,
                                   PresentWritable) = -1

\* both CPUs are in the wait loop of the same test_barrier_wait of test 6,
\* neither with its timeout used up
AllInBarrier ==
    /\ harness.bsp.pc \in {"poll1", "poll2"}
    /\ harness.ap.pc = harness.bsp.pc
    /\ harness.bsp.timeout > 0
    /\ harness.ap.timeout > 0

\* C40: once all CPUs have entered the test barrier each of them leaves it
\* with success (the next test of the loop condition ends the loop and
\* test_barrier_wait returns 0), also when the counter was reset and the
\* barrier is used again
C40_AllInAllOut ==
    AllInBarrier =>
        \A t \in {harness.bsp.timeout, harness.ap.timeout} :
            /\ ~test_barrier_wait(harness.test_barrier, HarnessCpus, t).spin
            /\ test_barrier_wait(harness.test_barrier, HarnessCpus, t).ret = 0

====
